---------------------------- MODULE Spec2Model ----------------------------
(***************************************************************************)
(* Verification model of the SPX options calculator: the strike search of  *)
(* option_finder.py (OptionFinder) over the pricing functions of           *)
(* calculator.py (OptionsCalculator).                                      *)
(*                                                                         *)
(* Real numbers are fixed-point integers.  The units are                   *)
(*   pips   (1e-4 dollar)  spot, strike, target, option premiums           *)
(*   cents  (1e-2 dollar)  risk amounts, the cost and profit of a position *)
(*   e6     (1e-6)         logarithms, rates times time, d1, d2, z-scores, *)
(*                         probabilities                                   *)
(*   e4     (1e-4)         volatility, reward/risk ratios, scores          *)
(*   half hours            time to expiry (17520 half hours in 365 days)   *)
(***************************************************************************)
EXTENDS Integers, Sequences, FiniteSets, TLC

VARIABLES pc, op, args, res, obs

vars == <<pc, op, args, res, obs>>

(***************************************************************************)
(* Fixed-point arithmetic                                                  *)
(***************************************************************************)
MaxInt == 2 ^ 30 - 1 + 2 ^ 30              \* the largest integer of the checker
E4 == 100 * 100
E6 == 1000 * 1000

Abs(x) == IF x < 0 THEN -x ELSE x
Sgn(x) == IF x < 0 THEN -1 ELSE 1
Max(a, b) == IF a >= b THEN a ELSE b
Min(a, b) == IF a <= b THEN a ELSE b

\* One doubling step of the long multiplication: h = <<q, r>> for a * (b \div 2).
MulDivStep(h, a, odd, c) ==
    LET t == 2 * h[2] + odd * (a % c)
    IN  <<2 * h[1] + odd * (a \div c) + (t \div c), t % c>>

\* <<quotient, remainder>> of a * b by c for a, b >= 0 and c > 0, computed
\* without leaving 32 bits as long as the quotient fits.
RECURSIVE MulDivQR(_, _, _)
MulDivQR(a, b, c) ==
    IF a = 0 \/ b = 0 THEN <<0, 0>>
    ELSE IF a <= MaxInt \div b THEN <<(a * b) \div c, (a * b) % c>>
    ELSE MulDivStep(MulDivQR(a, b \div 2, c), a, b % 2, c)

\* a * b / c truncated toward zero (c > 0).
MulDiv(a, b, c) == Sgn(a) * Sgn(b) * MulDivQR(Abs(a), Abs(b), c)[1]

\* Integer square root (floor) of n >= 0 by bisection on [lo, hi).
RECURSIVE SqrtBisect(_, _, _)
SqrtBisect(n, lo, hi) ==
    IF hi - lo <= 1 THEN lo
    ELSE LET mid == (lo + hi) \div 2
         IN  IF mid <= n \div mid THEN SqrtBisect(n, mid, hi)
             ELSE SqrtBisect(n, lo, mid)

ISqrt(n) == IF n <= 0 THEN 0 ELSE SqrtBisect(n, 0, 46341)

(***************************************************************************)
(* np.log, np.exp, np.sqrt and stats.norm.cdf in fixed point               *)
(***************************************************************************)
Ln2E6 == 693147                           \* ln 2

\* 2 * atanh(z) = 2 (z + z^3/3 + z^5/5 + z^7/7 + z^9/9), z and result in e6.
AtanhSeries(z) ==
    LET z2 == MulDiv(z, z, E6)
        z3 == MulDiv(z, z2, E6)
        z5 == MulDiv(z3, z2, E6)
        z7 == MulDiv(z5, z2, E6)
        z9 == MulDiv(z7, z2, E6)
    IN  2 * (z + z3 \div 3 + z5 \div 5 + z7 \div 7 + z9 \div 9)

\* ln(x) for x > 0 in e6: halve or double x into [0.75, 1.5], then
\* ln(x) = 2 atanh((x - 1) / (x + 1)).
RECURSIVE LnE6(_)
LnE6(x) ==
    IF x > 1500000 THEN Ln2E6 + LnE6(x \div 2)
    ELSE IF x < 750000 THEN LnE6(2 * x) - Ln2E6
    ELSE AtanhSeries(MulDiv(x - E6, E6, x + E6))

\* np.log(a / b) for a, b > 0, in e6.
LogRatio(a, b) == LnE6(MulDiv(a, E6, b))

\* exp(f) for 0 <= f < ln 2 by its Taylor series (Horner), f and result in e6.
ExpFrac(f) ==
    LET h(acc, n) == E6 + MulDiv(f, acc, n * E6)
    IN  h(h(h(h(h(h(h(h(h(E6, 9), 8), 7), 6), 5), 4), 3), 2), 1)

RECURSIVE Halve(_, _)
Halve(x, k) == IF k = 0 \/ x = 0 THEN x ELSE Halve(x \div 2, k - 1)

RECURSIVE Double(_, _)
Double(x, k) == IF k = 0 THEN x ELSE Double(2 * x, k - 1)

\* np.exp(y), y and result in e6: y = k ln 2 + f with 0 <= f < ln 2.
ExpE6(y) ==
    LET k == y \div Ln2E6
        f == y % Ln2E6
    IN  IF k >= 0 THEN Double(ExpFrac(f), k) ELSE Halve(ExpFrac(f), -k)

\* np.sqrt(t) for a time of th half hours (th < 3700): sqrt(th / 17520) in 1e-5.
SqrtYears(th) == ISqrt(10 * MulDiv(th, 1000 * E6, 17520))

\* Upper tail of the standard normal for x >= 0 (x and result in e6):
\* pdf(x) * (b1 t + ... + b5 t^5), t = 1 / (1 + 0.2316419 x).
NormTail(x) ==
    IF x > 10 * E6 THEN 0
    ELSE LET t   == MulDiv(E6, E6, E6 + MulDiv(2316419, x, 10 * E6))
             pdf == MulDiv(ExpE6(-MulDiv(x, x, 2 * E6)), E6, 2506628)
             h(acc, b) == b + MulDiv(t, acc, E6)
             poly == MulDiv(t, h(h(h(h(1330274, -1821256), 1781478), -356564), 319382), E6)
         IN  MulDiv(pdf, poly, E6)

\* stats.norm.cdf(x), x and result in e6 (norm.cdf(0.0) is 0.5).
NormCdf(x) == IF x = 0 THEN E6 \div 2
              ELSE IF x > 0 THEN E6 - NormTail(x) ELSE NormTail(-x)

(***************************************************************************)
(* Prices as Python floats.  A price is [hi, lo]: hi * 2^57 dollars plus   *)
(* lo pips.  With hi = 0 the doubles are finer than a pip and arithmetic   *)
(* on pips is exact; with hi = 1 (lo >= 0) the price lies in the binade    *)
(* [2^57, 2^58), where consecutive doubles are 32 dollars apart.           *)
(***************************************************************************)
Pips(d) == d * E4                         \* d dollars in pips
Num(lo) == [hi |-> 0, lo |-> lo]
Huge(lo) == [hi |-> 1, lo |-> lo]
UlpHuge == 32 * E4                        \* 2^(57-52) dollars, in pips

NumLeq(x, y) == x.hi < y.hi \/ (x.hi = y.hi /\ x.lo <= y.lo)
NumLess(x, y) == x.hi < y.hi \/ (x.hi = y.hi /\ x.lo < y.lo)

\* Python's round(n / d) for d > 0: to the nearest integer, ties to even.
RoundHalfEven(n, d) ==
    LET q == n \div d
        r == n % d
    IN  IF 2 * r < d THEN q
        ELSE IF 2 * r > d THEN q + 1
        ELSE IF q % 2 = 0 THEN q ELSE q + 1

\* x + d in double arithmetic (d in pips): exact below 2^53, rounded to the
\* nearest double, ties to the even mantissa, in the binade of 2^57.
FloatAdd(x, d) ==
    IF x.hi = 0 THEN Num(x.lo + d)
    ELSE Huge(UlpHuge * RoundHalfEven(x.lo + d, UlpHuge))

\* OptionFinder._round_to_standard_strike.  In the binade of 2^57 the
\* quotient price / 10 is rounded to an even integer, so the result is the
\* multiple of 20 dollars nearest to the price (2^57 = 12 mod 20).
RoundToStandardStrike(price) ==
    IF price.hi = 1
    THEN Huge(Pips(20) * RoundHalfEven(price.lo + Pips(12), Pips(20)) - Pips(12))
    ELSE IF price.lo < Pips(10) THEN Num(RoundHalfEven(2 * price.lo, E4) * (E4 \div 2))
    ELSE IF price.lo < Pips(100) THEN Num(RoundHalfEven(price.lo, E4) * E4)
    ELSE IF price.lo < Pips(500) THEN Num(RoundHalfEven(price.lo, Pips(5)) * Pips(5))
    ELSE Num(RoundHalfEven(price.lo, Pips(10)) * Pips(10))

InSeq(x, s) == \E i \in 1..Len(s) : s[i] = x

\* sorted(strikes): the element at place i has i - 1 elements before it in the
\* order (equal elements keep their order, as Python's stable sort does).
Sorted(s) ==
    [i \in 1..Len(s) |->
        s[CHOOSE j \in 1..Len(s) :
            Cardinality({k \in 1..Len(s) :
                NumLess(s[k], s[j]) \/ (s[k] = s[j] /\ k < j)}) = i - 1]]

\* step = 1 if current < 100 else 5 if current < 1000 else 10, in pips.
StrikeStep(current) ==
    IF NumLess(current, Num(Pips(100))) THEN Pips(1)
    ELSE IF NumLess(current, Num(Pips(1000))) THEN Pips(5)
    ELSE Pips(10)

\* The while loop of _generate_strike_candidates.  exit is "done" when the
\* loop condition fails, "stuck" when an iteration leaves current_strike and
\* strikes as they were (the loop then repeats that iteration forever), and
\* "cut" when `fuel` iterations have run.
RECURSIVE GenLoop(_, _, _, _, _, _)
GenLoop(cs, end, step, is_call, strikes, fuel) ==
    IF ~(IF is_call THEN NumLeq(cs, end) ELSE NumLeq(end, cs))
    THEN [strikes |-> strikes, exit |-> "done"]
    ELSE LET rounded == RoundToStandardStrike(cs)
             next    == FloatAdd(cs, IF is_call THEN step ELSE -step)
         IN  IF next = cs /\ InSeq(rounded, strikes)
             THEN [strikes |-> strikes, exit |-> "stuck"]
             ELSE IF fuel = 0 THEN [strikes |-> strikes, exit |-> "cut"]
             ELSE GenLoop(next, end, step, is_call,
                          IF InSeq(rounded, strikes) THEN strikes
                          ELSE Append(strikes, rounded),
                          fuel - 1)

MaxIter == 26

\* OptionFinder._generate_strike_candidates (current below 2^53).
GenerateStrikeCandidates(current, target, stop, is_call) ==
    LET start == IF is_call THEN Num((current.lo * 95) \div 100) ELSE target
        end   == IF is_call THEN target ELSE Num((current.lo * 105) \div 100)
        loop  == GenLoop(start, end, StrikeStep(current), is_call, <<>>, MaxIter)
    IN  [strikes |-> Sorted(loop.strikes), exit |-> loop.exit]

(***************************************************************************)
(* State.  pc is "idle" between calls and "done" when a call has returned, *)
(* raised or hung; op names the operation, args its arguments, res what it *)
(* gave back, obs what it did on the way (calls of the pricing formula,    *)
(* candidates evaluated).                                                  *)
(***************************************************************************)
Idle == pc = "idle" /\ op = "none" /\ args = <<>> /\ res = <<>> /\ obs = <<>>

Init == Idle

\* The caller takes the result; the objects keep no state between calls.
Return ==
    /\ pc = "done"
    /\ pc' = "idle" /\ op' = "none" /\ args' = <<>> /\ res' = <<>> /\ obs' = <<>>

(***************************************************************************)
(* _generate_strike_candidates called on its own                           *)
(***************************************************************************)
StrikeCurrents == {Pips(d) : d \in {4, 8, 50, 97, 100, 480, 600, 990, 1200}}
StrikeTargetPercents == {90, 96, 98, 101, 103, 104, 106}
HugeTargets == {Huge(k * UlpHuge) : k \in 1..4}

GenerateStrikeCandidatesCall ==
    /\ pc = "idle"
    /\ \E current \in StrikeCurrents, is_call \in BOOLEAN :
       \E target \in {Num((current * p) \div 100) : p \in StrikeTargetPercents}
                     \cup (IF is_call THEN {} ELSE HugeTargets) :
          LET r == GenerateStrikeCandidates(Num(current), target, Num(0), is_call)
          IN  /\ pc' = "done"
              /\ op' = "generate_strike_candidates"
              /\ args' = [current |-> Num(current), target |-> target, is_call |-> is_call]
              /\ res' = IF r.exit = "done" THEN [kind |-> "ok", strikes |-> r.strikes]
                        ELSE IF r.exit = "stuck" THEN [kind |-> "hang"]
                        ELSE [kind |-> "cut"]
              /\ obs' = <<>>

NextStrikes == GenerateStrikeCandidatesCall \/ Return

SpecStrikes == Init /\ [][NextStrikes]_vars

(***************************************************************************)
(* OptionsCalculator: the pricing functions                                *)
(***************************************************************************)
RiskFreeRate == 52500                     \* self.risk_free_rate = 0.0525, in e6
HalfHoursPerYear == 365 * 48                \* 365 days of 48 half hours

\* numpy doubles that may be infinite or NaN.
Fin(v) == [k |-> "fin", v |-> v]
PInf == [k |-> "pinf", v |-> 0]
NInf == [k |-> "ninf", v |-> 0]
NaN == [k |-> "nan", v |-> 0]

ExtNeg(x) == IF x.k = "fin" THEN Fin(-x.v)
             ELSE IF x.k = "pinf" THEN NInf
             ELSE IF x.k = "ninf" THEN PInf ELSE NaN

\* np.log(a / b) of numpy doubles (b # 0): -inf at 0, NaN below 0; in e6.
NpLog(a, b) ==
    IF a = 0 THEN NInf
    ELSE IF (a < 0) # (b < 0) THEN NaN
    ELSE Fin(LogRatio(Abs(a), Abs(b)))

\* x + v and x - v for a finite v.
ExtAdd(x, v) == IF x.k = "fin" THEN Fin(x.v + v) ELSE x

\* num / den of numpy doubles, num, den and the quotient in e6
\* (quotients beyond +-100 are kept at +-100, where norm.cdf is flat).
\* numpy divides by zero without raising: x / 0.0 is +-inf, 0 / 0.0 is NaN.
ExtDiv(num, den) ==
    IF num.k = "nan" THEN NaN
    ELSE IF num.k = "fin" /\ den = 0
         THEN (IF num.v > 0 THEN PInf ELSE IF num.v < 0 THEN NInf ELSE NaN)
    ELSE IF num.k = "fin"
         THEN (IF Abs(num.v) \div Abs(den) >= 100
               THEN Fin(Sgn(num.v) * Sgn(den) * 100 * E6)
               ELSE Fin(Sgn(den) * MulDiv(num.v, E6, Abs(den))))
    ELSE IF (num.k = "pinf") = (den >= 0) THEN PInf ELSE NInf

\* stats.norm.cdf of a numpy double, in e6.
ExtCdf(x) ==
    IF x.k = "fin" THEN Fin(NormCdf(x.v))
    ELSE IF x.k = "pinf" THEN Fin(E6)
    ELSE IF x.k = "ninf" THEN Fin(0) ELSE NaN

\* T in years times x (e6), for T of th half hours.
TimesYears(x, th) == MulDiv(x, th, HalfHoursPerYear)

\* S - K (K - S) where the option has expired, without max().
IntrinsicValueSigned(S, K, option_type) ==
    IF option_type = "call" THEN S - K ELSE K - S

\* What black_scholes returns for an expired option (T <= 0), in pips.
IntrinsicValue(S, K, option_type) ==
    IF option_type = "call" THEN Max(S - K, 0) ELSE Max(K - S, 0)

\* OptionsCalculator.black_scholes(S, K, T, r, sigma, option_type) for Python
\* numbers S and K in pips, T of th half hours, r in e6, sigma in e4:
\* [kind |-> "ok", v |-> premium in pips], [kind |-> "nan"] or
\* [kind |-> "raise"] (the ZeroDivisionError of S / K).
BlackScholes(S, K, th, r, sigma, option_type) ==
    IF th <= 0
    THEN [kind |-> "ok", v |-> IntrinsicValue(S, K, option_type)]
    ELSE IF K = 0 THEN [kind |-> "raise", error |-> "ZeroDivisionError"]
    ELSE LET vol == MulDiv(sigma, SqrtYears(th), 1000)        \* sigma * sqrt(T), e6
             num == ExtAdd(NpLog(S, K), TimesYears(r + MulDiv(sigma, sigma, 200), th))
             d1  == ExtDiv(num, vol)
             d2  == ExtAdd(d1, -vol)
             c1  == ExtCdf(IF option_type = "call" THEN d1 ELSE ExtNeg(d1))
             c2  == ExtCdf(IF option_type = "call" THEN d2 ELSE ExtNeg(d2))
             kd  == MulDiv(K, ExpE6(-TimesYears(r, th)), E6)  \* K * exp(-r T), pips
         IN  IF c1.k = "nan" \/ c2.k = "nan" THEN [kind |-> "nan"]
             ELSE IF option_type = "call"
                  THEN [kind |-> "ok", v |-> MulDiv(S, c1.v, E6) - MulDiv(kd, c2.v, E6)]
                  ELSE [kind |-> "ok", v |-> MulDiv(kd, c2.v, E6) - MulDiv(S, c1.v, E6)]

\* OptionsCalculator.calculate_breakeven, in pips.
CalculateBreakeven(strike, premium, is_call) ==
    IF is_call THEN strike + premium ELSE strike - premium

\* np.log(break_even / current_price) where break_even is a numpy double:
\* numpy divides by zero without raising (x / 0 is +-inf, 0 / 0 is NaN).
NpLogOfQuotient(a, b) ==
    IF b = 0 THEN (IF a > 0 THEN PInf ELSE NaN)
    ELSE NpLog(a, b)

\* max(0, min(1, p)) of Python: min(1, nan) is 1.
Clamp01(p) == IF p.k = "nan" THEN E6 ELSE Max(0, Min(E6, p.v))

\* time_to_expiry of calculate_probability_of_profit, in half hours: dte / 365,
\* and no time at all in the branch dte <= 0.
ProbabilityTime(dte) == IF dte <= 0 THEN 0 ELSE 48 * dte

\* OptionsCalculator.calculate_probability_of_profit, in e6 (dte in days).
CalculateProbabilityOfProfit(current_price, break_even, dte, iv, is_bullish) ==
    IF dte <= 0
    THEN (IF (is_bullish /\ current_price > break_even)
             \/ (~is_bullish /\ current_price < break_even) THEN E6 ELSE 0)
    ELSE LET th        == ProbabilityTime(dte)
             drift     == TimesYears(RiskFreeRate - MulDiv(iv, iv, 200), th)
             diffusion == MulDiv(iv, SqrtYears(th), 1000)
             z_score   == ExtDiv(ExtAdd(NpLogOfQuotient(break_even, current_price), -drift),
                                 diffusion)
             cdf       == ExtCdf(z_score)
         IN  Clamp01(IF cdf.k = "nan" THEN NaN
                     ELSE IF is_bullish THEN Fin(E6 - cdf.v) ELSE cdf)

(***************************************************************************)
(* black_scholes called on its own, inside and outside its domain          *)
(***************************************************************************)
Spots == {0, Pips(90), Pips(100)}
Strikes == {-Pips(90), 0, Pips(90), Pips(100), Pips(110)}
Times == {-48, 0, 2, 48 * 30, 48 * 60}                          \* half hours
Sigmas == {-2000, 0, 2000, 5000}                            \* e4

BlackScholesCall ==
    /\ pc = "idle"
    /\ \E S \in Spots, K \in Strikes, th \in Times, sigma \in Sigmas,
          option_type \in {"call", "put"} :
          /\ pc' = "done"
          /\ op' = "black_scholes"
          /\ args' = [S |-> S, K |-> K, T |-> th, r |-> RiskFreeRate, sigma |-> sigma,
                      option_type |-> option_type]
          /\ res' = BlackScholes(S, K, th, RiskFreeRate, sigma, option_type)
          /\ obs' = <<>>

NextPricing == BlackScholesCall \/ Return

SpecPricing == Init /\ [][NextPricing]_vars

(***************************************************************************)
(* OptionFinder.find_best_strike                                           *)
(* Prices in pips, risk_amount in cents, dte in days, iv in e4.  A premium *)
(* of p pips costs p cents per contract (p / 10000 * 100 dollars).         *)
(***************************************************************************)
MinProbability == 250000                  \* self.min_probability = 0.25, in e6
MaxContracts == 100                       \* self.max_contracts

\* T = max(dte / 365, 1/365/24), in half hours.
TimeToExpiry(dte) == Max(48 * dte, 2)

OptionType(is_call) == IF is_call THEN "call" ELSE "put"

\* a / b in e4 for b > 0 (ratios beyond +-200000 are kept there).
RatioE4(a, b) ==
    IF Abs(a) \div b >= 200000 THEN Sgn(a) * 200000 * E4 ELSE MulDiv(a, E4, b)

\* if option_price <= 0 or option_price * 100 > risk_amount: continue
Unaffordable(option_price, risk_amount) == option_price <= 0 \/ option_price > risk_amount

\* A filter that lets every probability through: the search without line 88's
\* comparison, against which the probability floor (C2) is tested.
AnyProbability(probability) == TRUE

\* probability >= self.min_probability
PassesProbability(probability) == probability >= MinProbability

\* Lines 59-91 for a candidate whose premium passed line 47: the exit value,
\* the profit, the breakeven, the probability and the score.
ScoreCandidate(strike, option_price, contracts, a) ==
    LET T            == TimeToExpiry(a.dte)
        actual_risk  == contracts * option_price                      \* cents
        tv           == BlackScholes(a.target, strike, T \div 2, RiskFreeRate, a.iv,
                                     OptionType(a.is_call))
        target_value == IF tv.kind = "ok" THEN tv.v ELSE 0
        max_profit   == contracts * (target_value - option_price)     \* cents
        breakeven    == CalculateBreakeven(strike, option_price, a.is_call)
        probability  == CalculateProbabilityOfProfit(a.entry, breakeven, a.dte, a.iv, a.is_call)
        rrr          == RatioE4(max_profit, actual_risk)
        base == [strike |-> strike, option_price |-> option_price, premium_T |-> T,
                 contracts |-> contracts, actual_risk |-> actual_risk,
                 target_value |-> target_value, exit_T |-> T \div 2,
                 max_profit |-> max_profit, breakeven |-> breakeven,
                 probability |-> probability, probability_T |-> ProbabilityTime(a.dte),
                 calls |-> 2]
    IN  IF ~(actual_risk > 0 /\ PassesProbability(probability))
        THEN [status |-> "rejected"] @@ base
        ELSE IF tv.kind = "nan"          \* the score is NaN and never beats the best
        THEN [status |-> "nan"] @@ base
        ELSE IF a.entry = 0              \* abs(strike - entry) / entry
        THEN [status |-> "raise", error |-> "ZeroDivisionError"] @@ base
        ELSE [status |-> "scored", rrr |-> rrr,
              score |-> MulDiv(rrr, probability, E6)
                        - Sgn(a.entry) * MulDiv(Abs(strike - a.entry), 10 * E4, Abs(a.entry))]
             @@ base

\* The body of the for loop (lines 37-108) for one strike, up to the comparison
\* with the best score.  int(nan) raises ValueError.
EvalCandidate(strike, a) ==
    LET T  == TimeToExpiry(a.dte)
        bs == BlackScholes(a.entry, strike, T, RiskFreeRate, a.iv, OptionType(a.is_call))
        base == [strike |-> strike, premium_T |-> T, calls |-> 1]
    IN  IF bs.kind = "raise" THEN [status |-> "raise", error |-> bs.error] @@ base
        ELSE IF bs.kind = "nan" THEN [status |-> "raise", error |-> "ValueError"] @@ base
        ELSE IF Unaffordable(bs.v, a.risk_amount)
        THEN [status |-> "unaffordable", option_price |-> bs.v] @@ base
        ELSE IF Min(a.risk_amount \div bs.v, MaxContracts) = 0
        THEN [status |-> "no_contracts", option_price |-> bs.v] @@ base
        ELSE ScoreCandidate(strike, bs.v, Min(a.risk_amount \div bs.v, MaxContracts), a)

\* A comparison that lets a candidate of equal score replace the best.
BeatsOrTies(score, best) == best = <<>> \/ score >= best.score

\* if score > best_score, best_score being -inf while best_option is None.
Beats(score, best) == best = <<>> \/ score > best.score

\* A search that keeps the last scored candidate whatever its score: the loop
\* without the comparison of line 93, against which the maximum (C3) is tested.
RECURSIVE SearchLoopLast(_, _, _)
SearchLoopLast(cands, i, best) ==
    IF i > Len(cands) THEN [kind |-> "ok", best |-> best, evaluated |-> Len(cands)]
    ELSE IF cands[i].status = "raise"
    THEN [kind |-> "raise", error |-> cands[i].error, evaluated |-> i]
    ELSE SearchLoopLast(cands, i + 1, IF cands[i].status = "scored" THEN cands[i] ELSE best)

\* The for loop over the evaluated candidates: best_option and best_score, the
\* loop ending at the first candidate that raises.  best = <<>> is None.
RECURSIVE SearchLoop(_, _, _)
SearchLoop(cands, i, best) ==
    IF i > Len(cands) THEN [kind |-> "ok", best |-> best, evaluated |-> Len(cands)]
    ELSE IF cands[i].status = "raise"
    THEN [kind |-> "raise", error |-> cands[i].error, evaluated |-> i]
    ELSE IF cands[i].status = "scored" /\ Beats(cands[i].score, best)
    THEN SearchLoop(cands, i + 1, cands[i])
    ELSE SearchLoop(cands, i + 1, best)

\* The dictionary of lines 95-108.  Money rounded to cents is in cents, money
\* rounded to dollars in dollars, rrr in tenths.
BestOption(c) ==
    [kind |-> "ok", found |-> TRUE, strike |-> c.strike,
     entry_price |-> RoundHalfEven(c.option_price, 100),
     target_price |-> RoundHalfEven(c.target_value, 100),
     contracts |-> c.contracts,
     total_risk |-> RoundHalfEven(c.actual_risk, 100),
     max_profit |-> RoundHalfEven(c.max_profit, 100),
     breakeven |-> RoundHalfEven(c.breakeven, 100),
     probability |-> c.probability,
     rrr |-> RoundHalfEven(c.rrr, 1000),
     score |-> c.score,
     prob_loss |-> E6 - c.probability]

NotFound(error) == [kind |-> "ok", found |-> FALSE, error |-> error]

RECURSIVE SumCalls(_, _)
SumCalls(cands, n) == IF n = 0 THEN 0 ELSE cands[n].calls + SumCalls(cands, n - 1)

\* A validation of the risk amount alone: line 24 without its second test,
\* against which the immediate rejection (C4) is tested.
InvalidRiskAmount(a) == a.risk_amount <= 0

\* if risk_amount <= 0 or current_price <= 0
InvalidParameters(a) == a.risk_amount <= 0 \/ a.current_price <= 0

\* find_best_strike(a): [res |-> what the call gives, obs |-> what it did].
FindBestStrike(a) ==
    IF InvalidParameters(a)
    THEN [res |-> NotFound("Invalid parameters"),
          obs |-> [generated |-> FALSE, strikes |-> <<>>, cands |-> <<>>, pricing_calls |-> 0]]
    ELSE LET gen == GenerateStrikeCandidates(Num(a.current_price), Num(a.target),
                                             Num(a.stop), a.is_call)
             strikes == [i \in 1..Len(gen.strikes) |-> gen.strikes[i].lo]
             cands == [i \in 1..Len(strikes) |-> EvalCandidate(strikes[i], a)]
             loop == SearchLoop(cands, 1, <<>>)
             seen == SubSeq(cands, 1, loop.evaluated)
         IN  IF gen.exit # "done"
             THEN [res |-> [kind |-> IF gen.exit = "stuck" THEN "hang" ELSE "cut"],
                   obs |-> [generated |-> TRUE, strikes |-> <<>>, cands |-> <<>>,
                            pricing_calls |-> 0]]
             ELSE [res |-> IF loop.kind = "raise" THEN [kind |-> "raise", error |-> loop.error]
                           ELSE IF loop.best = <<>> THEN NotFound("No suitable option found")
                           ELSE BestOption(loop.best),
                   obs |-> [generated |-> TRUE, strikes |-> strikes, cands |-> seen,
                            pricing_calls |-> SumCalls(seen, Len(seen))]]

(***************************************************************************)
(* OptionFinder.find_spread_strategy and find_butterfly_strategy           *)
(***************************************************************************)
\* int(a / b) of Python for b > 0: truncation toward zero.
IntDiv(a, b) == Sgn(a) * (Abs(a) \div b)

\* min(int(risk_amount / (net_debit * 100)), self.max_contracts)
SpreadContracts(risk_amount, net_debit) == Min(IntDiv(risk_amount, net_debit), MaxContracts)

\* round(max_profit / max_loss, 1) if max_loss > 0 else 0, in tenths.
RoundedRatio(max_profit, max_loss) ==
    IF max_loss > 0 THEN RoundHalfEven(RatioE4(max_profit, max_loss), 1000) ELSE 0

\* (short_strike - long_strike - net_debit) * contracts * 100: the width
\* without abs().
SpreadMaxProfitSigned(long_strike, short_strike, net_debit, contracts) ==
    (short_strike - long_strike - net_debit) * contracts

\* (abs(short_strike - long_strike) - net_debit) * contracts * 100, in cents.
SpreadMaxProfit(long_strike, short_strike, net_debit, contracts) ==
    (Abs(short_strike - long_strike) - net_debit) * contracts

\* find_spread_strategy(a): [res, obs].  The strikes are rounded from
\* entry -+ |target - entry| / 8 and from target.
FindSpreadStrategy(a) ==
    LET spread_width8 == Abs(a.target - a.entry) \div 8        \* spread_width / 4
        long_strike  == RoundToStandardStrike(
                            Num(IF a.is_call THEN a.entry - spread_width8
                                ELSE a.entry + spread_width8)).lo
        short_strike == RoundToStandardStrike(Num(a.target)).lo
        T   == TimeToExpiry(a.dte)
        lp  == BlackScholes(a.entry, long_strike, T, RiskFreeRate, a.iv, OptionType(a.is_call))
        sp  == BlackScholes(a.entry, short_strike, T, RiskFreeRate, a.iv, OptionType(a.is_call))
        net_debit == lp.v - sp.v                               \* pips
        contracts == SpreadContracts(a.risk_amount, net_debit)
        max_profit == SpreadMaxProfit(long_strike, short_strike, net_debit, contracts)
        max_loss   == net_debit * contracts                                       \* cents
        legs == [long_strike |-> long_strike, short_strike |-> short_strike, premium_T |-> T]
    IN  IF lp.kind = "raise"
        THEN [res |-> [kind |-> "raise", error |-> lp.error],
              obs |-> [pricing_calls |-> 1] @@ legs]
        ELSE IF sp.kind = "raise"
        THEN [res |-> [kind |-> "raise", error |-> sp.error],
              obs |-> [pricing_calls |-> 2] @@ legs]
        ELSE IF lp.kind = "nan" \/ sp.kind = "nan"             \* int(nan)
        THEN [res |-> [kind |-> "raise", error |-> "ValueError"],
              obs |-> [pricing_calls |-> 2] @@ legs]
        ELSE IF net_debit <= 0
        THEN [res |-> NotFound("Invalid spread pricing"),
              obs |-> [pricing_calls |-> 2, net_debit |-> net_debit] @@ legs]
        ELSE IF contracts = 0
        THEN [res |-> NotFound("Insufficient capital"),
              obs |-> [pricing_calls |-> 2, net_debit |-> net_debit] @@ legs]
        ELSE [res |-> [kind |-> "ok", found |-> TRUE, type |-> "Vertical Spread",
                       long_strike |-> long_strike, short_strike |-> short_strike,
                       net_debit |-> RoundHalfEven(net_debit, 100),
                       contracts |-> contracts,
                       max_profit |-> RoundHalfEven(max_profit, 100),
                       max_loss |-> RoundHalfEven(max_loss, 100),
                       rrr |-> RoundedRatio(max_profit, max_loss),
                       breakeven |-> IF a.is_call THEN long_strike + net_debit
                                     ELSE long_strike - net_debit],
              obs |-> [pricing_calls |-> 2, net_debit |-> net_debit,
                       max_profit |-> max_profit, max_loss |-> max_loss] @@ legs]

\* find_butterfly_strategy(a): [res, obs].
FindButterflyStrategy(a) ==
    LET atm_strike   == RoundToStandardStrike(Num(a.pin_target)).lo
        wing_width   == (a.current_price * 2) \div 100
        lower_strike == RoundToStandardStrike(Num(atm_strike - wing_width)).lo
        upper_strike == RoundToStandardStrike(Num(atm_strike + wing_width)).lo
        T  == TimeToExpiry(a.dte)
        lo == BlackScholes(a.current_price, lower_strike, T, RiskFreeRate, a.iv,
                           OptionType(a.is_call))
        at == BlackScholes(a.current_price, atm_strike, T, RiskFreeRate, a.iv,
                           OptionType(a.is_call))
        up == BlackScholes(a.current_price, upper_strike, T, RiskFreeRate, a.iv,
                           OptionType(a.is_call))
        net_debit == lo.v - 2 * at.v + up.v                    \* pips
        contracts == SpreadContracts(a.risk_amount, net_debit)
        max_profit == (atm_strike - lower_strike - net_debit) * contracts         \* cents
        max_loss   == net_debit * contracts                                       \* cents
        legs == [lower_strike |-> lower_strike, atm_strike |-> atm_strike,
                 upper_strike |-> upper_strike, premium_T |-> T]
    IN  IF lo.kind = "raise"
        THEN [res |-> [kind |-> "raise", error |-> lo.error],
              obs |-> [pricing_calls |-> 1] @@ legs]
        ELSE IF at.kind = "raise"
        THEN [res |-> [kind |-> "raise", error |-> at.error],
              obs |-> [pricing_calls |-> 2] @@ legs]
        ELSE IF up.kind = "raise"
        THEN [res |-> [kind |-> "raise", error |-> up.error],
              obs |-> [pricing_calls |-> 3] @@ legs]
        ELSE IF lo.kind = "nan" \/ at.kind = "nan" \/ up.kind = "nan"   \* int(nan)
        THEN [res |-> [kind |-> "raise", error |-> "ValueError"],
              obs |-> [pricing_calls |-> 3] @@ legs]
        ELSE IF net_debit <= 0
        THEN [res |-> NotFound("Butterfly yields credit (check inputs)"),
              obs |-> [pricing_calls |-> 3, net_debit |-> net_debit] @@ legs]
        ELSE IF contracts = 0
        THEN [res |-> NotFound("Insufficient capital for butterfly"),
              obs |-> [pricing_calls |-> 3, net_debit |-> net_debit] @@ legs]
        ELSE [res |-> [kind |-> "ok", found |-> TRUE, type |-> "Butterfly Spread",
                       lower_strike |-> lower_strike, atm_strike |-> atm_strike,
                       upper_strike |-> upper_strike,
                       net_debit |-> RoundHalfEven(net_debit, 100),
                       contracts |-> contracts,
                       max_profit |-> RoundHalfEven(max_profit, 100),
                       max_loss |-> RoundHalfEven(max_loss, 100),
                       rrr |-> RoundedRatio(max_profit, max_loss),
                       pin_target |-> atm_strike,
                       profit_range |-> <<lower_strike + net_debit, upper_strike - net_debit>>],
              obs |-> [pricing_calls |-> 3, net_debit |-> net_debit,
                       max_profit |-> max_profit, max_loss |-> max_loss] @@ legs]

(***************************************************************************)
(* OptionFinder.analyze_multiple_strategies, called with keywords kwargs   *)
(* kwargs is a record; a call of f with them raises TypeError when kwargs   *)
(* names a keyword f does not have or lacks one without a default.         *)
(***************************************************************************)
BestStrikeParams == {"instrument", "current_price", "entry", "target", "stop",
                     "risk_amount", "is_call", "dte", "iv"}
BestStrikeRequired == {"instrument", "current_price", "entry", "target", "stop",
                       "risk_amount"}
SpreadParams == {"instrument", "current_price", "entry", "target", "risk_amount",
                 "is_call", "dte", "iv"}
SpreadRequired == {"instrument", "current_price", "entry", "target", "risk_amount"}
ButterflyParams == {"instrument", "current_price", "pin_target", "risk_amount",
                    "is_call", "dte", "iv"}
ButterflyRequired == {"instrument", "current_price", "pin_target", "risk_amount"}

\* is_call: bool = True, dte: int = 0, iv: float = 0.20
Defaults == [is_call |-> TRUE, dte |-> 0, iv |-> 2000]

Binds(kwargs, params, required) ==
    DOMAIN kwargs \subseteq params /\ required \subseteq DOMAIN kwargs

TypeError(callee, calls) ==
    [res |-> [kind |-> "raise", error |-> "TypeError", callee |-> callee],
     obs |-> [pricing_calls |-> calls]]

Row(strategy, r, loss, probability) ==
    [Strategy |-> strategy, MaxProfit |-> r.max_profit, MaxLoss |-> loss,
     RRR |-> r.rrr, Probability |-> probability, Contracts |-> r.contracts]

\* Lines 321-337: the butterfly, then the DataFrame of the rows.
AnalyzeButterfly(kwargs, rows, calls) ==
    IF "pin_target" \notin DOMAIN kwargs
    THEN [res |-> [kind |-> "ok", rows |-> rows], obs |-> [pricing_calls |-> calls]]
    ELSE IF ~Binds(kwargs, ButterflyParams, ButterflyRequired)
    THEN TypeError("find_butterfly_strategy", calls)
    ELSE LET butterfly == FindButterflyStrategy(kwargs @@ Defaults)
             total == calls + butterfly.obs.pricing_calls
         IN  IF butterfly.res.kind # "ok"
             THEN [res |-> butterfly.res, obs |-> [pricing_calls |-> total]]
             ELSE [res |-> [kind |-> "ok",
                            rows |-> IF butterfly.res.found
                                     THEN Append(rows, Row("Butterfly", butterfly.res,
                                                           butterfly.res.max_loss, "Pin-based"))
                                     ELSE rows],
                   obs |-> [pricing_calls |-> total]]

\* Lines 309-319: the vertical spread.
AnalyzeSpread(kwargs, rows, calls) ==
    IF ~Binds(kwargs, SpreadParams, SpreadRequired)
    THEN TypeError("find_spread_strategy", calls)
    ELSE LET spread == FindSpreadStrategy(kwargs @@ Defaults)
             total == calls + spread.obs.pricing_calls
         IN  IF spread.res.kind # "ok"
             THEN [res |-> spread.res, obs |-> [pricing_calls |-> total]]
             ELSE AnalyzeButterfly(kwargs,
                      IF spread.res.found
                      THEN Append(rows, Row("Vertical Spread", spread.res,
                                            spread.res.max_loss, "N/A"))
                      ELSE rows,
                      total)

\* analyze_multiple_strategies with the keywords kwargs: [res, obs].
AnalyzeMultipleStrategies(kwargs) ==
    IF ~Binds(kwargs, BestStrikeParams, BestStrikeRequired)
    THEN TypeError("find_best_strike", 0)
    ELSE LET single == FindBestStrike(kwargs @@ Defaults)
             calls == single.obs.pricing_calls
         IN  IF single.res.kind # "ok"
             THEN [res |-> single.res, obs |-> [pricing_calls |-> calls]]
             ELSE AnalyzeSpread(kwargs,
                      IF single.res.found
                      THEN <<Row("Single Option", single.res, single.res.total_risk,
                                 single.res.probability)>>
                      ELSE <<>>,
                      calls)

(***************************************************************************)
(* The strategy operations called in any order                             *)
(***************************************************************************)
Currents == {Pips(d) : d \in {0, 50, 100}}
TargetPercents == {97, 103, 106}
RiskAmounts == {-10000, 0, 2500, 34680, 400000}             \* cents
Dtes == {0, 7, 30}
Ivs == {0, 2000, 5000}

\* The arguments of one call: prices from current_price, entry at the
\* current price or missing (0), the target as a percentage of it.
Setups ==
    {[instrument |-> "SPY", current_price |-> c, entry |-> e, target |-> (c * p) \div 100,
      risk_amount |-> r, is_call |-> ic, dte |-> dte, iv |-> iv] :
        c \in Currents, e \in {0, 1}, p \in TargetPercents, r \in RiskAmounts,
        ic \in BOOLEAN, dte \in Dtes, iv \in Ivs}

Setup(s) == [s EXCEPT !.entry = s.entry * s.current_price]

\* A call of the operation `name`: f maps the arguments it may be called with
\* to [res |-> what the call gives back, obs |-> what it did].
Call(name, f) ==
    /\ pc = "idle"
    /\ \E a \in DOMAIN f :
          LET r == f[a]
          IN  /\ pc' = "done"
              /\ op' = name
              /\ args' = a
              /\ res' = r.res
              /\ obs' = r.obs

\* The arguments of the calls.
BestStrikeSetups == {Setup(s) @@ [stop |-> 0] : s \in Setups}

SpreadSetups == {Setup(s) : s \in Setups}

\* pin_target takes the values of target and the current price; the
\* butterfly has no entry.
ButterflySetups ==
    {[k \in ButterflyParams |->
         IF k # "pin_target" THEN s[k]
         ELSE IF at_the_money THEN s.current_price ELSE s.target] :
        s \in {t \in Setups : t.entry = 1}, at_the_money \in BOOLEAN}

\* The keywords of a call of analyze_multiple_strategies: the five every
\* strategy has, with or without stop, pin_target and the optional three.
Keywords ==
    {SpreadRequired \cup stop \cup pin \cup optional :
        stop \in {{}, {"stop"}}, pin \in {{}, {"pin_target"}},
        optional \in {{}, {"is_call", "dte", "iv"}}}

KeywordSets ==
    {[k \in keys |-> (Setup(s) @@ [stop |-> 0, pin_target |-> s.current_price])[k]] :
        keys \in Keywords, s \in {t \in Setups : t.entry = 1 /\ t.iv = 2000 /\ t.dte = 7}}

FindBestStrikeCall ==
    Call("find_best_strike", [a \in BestStrikeSetups |-> FindBestStrike(a)])

FindSpreadStrategyCall ==
    Call("find_spread_strategy", [a \in SpreadSetups |-> FindSpreadStrategy(a)])

FindButterflyStrategyCall ==
    Call("find_butterfly_strategy", [a \in ButterflySetups |-> FindButterflyStrategy(a)])

AnalyzeMultipleStrategiesCall ==
    Call("analyze_multiple_strategies", [a \in KeywordSets |-> AnalyzeMultipleStrategies(a)])

Next ==
    \/ FindBestStrikeCall
    \/ FindSpreadStrategyCall
    \/ FindButterflyStrategyCall
    \/ AnalyzeMultipleStrategiesCall
    \/ Return

Spec == Init /\ [][Next]_vars

(***************************************************************************)
(* Properties of find_best_strike                                          *)
(***************************************************************************)
Returned(name) == pc = "done" /\ op = name
Found(name) == Returned(name) /\ res.kind = "ok" /\ res.found

\* The candidates the search evaluated, as a set.
Evaluated == {obs.cands[i] : i \in 1..Len(obs.cands)}

\* C1: every call of find_best_strike with risk_amount > 0 that returns
\* found=True reports a total_risk that is not greater than risk_amount
\* (total_risk in dollars, risk_amount in cents).
C1_TotalRiskWithinRiskAmount ==
    (Found("find_best_strike") /\ args.risk_amount > 0)
        => 100 * res.total_risk <= args.risk_amount

\* C2: a recommendation of find_best_strike has a probability of at least
\* min_probability, and no evaluated candidate whose probability of profit is
\* below it is the strike recommended.
C2_ProbabilityFloor ==
    Found("find_best_strike")
        => /\ res.probability >= MinProbability
           /\ \A c \in Evaluated :
                 ("probability" \in DOMAIN c /\ c.probability < MinProbability)
                     => c.strike # res.strike

\* C2's case: a recommendation was returned by a search that met a candidate
\* with a probability below the floor.
C2_Witness ==
    /\ Found("find_best_strike")
    /\ \E c \in Evaluated : "probability" \in DOMAIN c /\ c.probability < MinProbability

\* A candidate passes the affordability filter (0 < premium * 100 <=
\* risk_amount) and the probability filter (probability >= 0.25).
PassesBothFilters(c) ==
    /\ "option_price" \in DOMAIN c
    /\ 0 < c.option_price /\ c.option_price <= args.risk_amount
    /\ "probability" \in DOMAIN c
    /\ c.probability >= MinProbability

\* (max_profit / actual_risk) * probability - |strike - entry| / entry * 10, e4.
ScoreOf(c) ==
    MulDiv(RatioE4(c.max_profit, c.actual_risk), c.probability, E6)
        - MulDiv(Abs(c.strike - args.entry), 10 * E4, args.entry)

\* C3: when find_best_strike returns, it gives found=False exactly when no
\* generated candidate passes both filters, and otherwise the recommendation
\* is a candidate that passes both and whose score is the maximum of the
\* scores of the candidates that pass both.
C3_MaximumScore ==
    (Returned("find_best_strike") /\ res.kind = "ok" /\ obs.generated)
        => LET passing == {c \in Evaluated : PassesBothFilters(c)}
           IN  /\ Len(obs.cands) = Len(obs.strikes)
               /\ res.found <=> passing # {}
               /\ res.found =>
                     /\ \E c \in passing : c.strike = res.strike /\ ScoreOf(c) = res.score
                     /\ \A c \in passing : ScoreOf(c) <= res.score

\* C3's case: several candidates pass both filters with different scores and
\* the recommendation is not the last of them.
C3_Witness ==
    /\ Found("find_best_strike")
    /\ \E c \in Evaluated :
          PassesBothFilters(c) /\ ScoreOf(c) < res.score /\ c.strike > res.strike

\* C4: with risk_amount <= 0 or current_price <= 0 find_best_strike returns
\* found=False at once: no candidate strike was generated and none priced.
C4_RejectsImmediately ==
    (Returned("find_best_strike") /\ (args.risk_amount <= 0 \/ args.current_price <= 0))
        => /\ res = NotFound("Invalid parameters")
           /\ ~obs.generated
           /\ obs.pricing_calls = 0

\* C4's case: a call with a positive risk amount and no current price.
C4_Witness ==
    /\ Returned("find_best_strike")
    /\ args.risk_amount > 0 /\ args.current_price <= 0
    /\ res.kind = "ok" /\ ~res.found

(***************************************************************************)
(* Properties of the strategy operations and of black_scholes              *)
(***************************************************************************)
StrategyOperations == {"find_best_strike", "find_spread_strategy", "find_butterfly_strategy"}

\* A non-positive volatility, price or risk amount among the arguments.
InvalidInput(a) ==
    \/ a.iv <= 0
    \/ a.current_price <= 0
    \/ a.risk_amount <= 0
    \/ ("entry" \in DOMAIN a /\ a.entry <= 0)

\* C5: a strategy operation called with a non-positive volatility, price or
\* risk amount reports a not-found result and has not evaluated the pricing
\* formula for any strike.
C5_InvalidInputNeverPriced ==
    (pc = "done" /\ op \in StrategyOperations /\ InvalidInput(args))
        => /\ res.kind = "ok" /\ ~res.found
           /\ obs.pricing_calls = 0

\* C6: black_scholes with T > 0 and volatility <= 0 or strike <= 0 raises or
\* returns NaN, never a finite premium.
C6_OutOfDomainFails ==
    (Returned("black_scholes") /\ args.T > 0 /\ (args.sigma <= 0 \/ args.K <= 0))
        => res.kind \in {"raise", "nan"}

\* C9: every candidate of find_best_strike that reached the probability of
\* profit has its premium at T = max(dte / 365, 1/365/24), its exit value at
\* T / 2 and its probability over the same T, none of them over no time.
C9_FlooredTimeEverywhere ==
    Returned("find_best_strike")
        => \A c \in Evaluated :
              "probability_T" \in DOMAIN c
                  => /\ c.premium_T = TimeToExpiry(args.dte) /\ c.premium_T > 0
                     /\ 2 * c.exit_T = c.premium_T /\ c.exit_T > 0
                     /\ c.probability_T = c.premium_T

Strategies == <<"Single Option", "Vertical Spread", "Butterfly">>

\* The rows name each strategy at most once, in the order of Strategies.
RowsInOrder(rows) ==
    \A i, j \in 1..Len(rows) :
        i < j => \E m, n \in 1..Len(Strategies) :
                    m < n /\ rows[i].Strategy = Strategies[m] /\ rows[j].Strategy = Strategies[n]

\* C10: analyze_multiple_strategies called with keywords find_best_strike
\* accepts (and optionally pin_target) returns the table of the strategies
\* found, in the order Single Option, Vertical Spread, Butterfly, and raises
\* nothing.
C10_AnalyzeReturnsTable ==
    (Returned("analyze_multiple_strategies")
        /\ BestStrikeRequired \subseteq DOMAIN args
        /\ DOMAIN args \subseteq BestStrikeParams \cup {"pin_target"})
        => res.kind = "ok" /\ RowsInOrder(res.rows)

(***************************************************************************)
(* Properties of _generate_strike_candidates                               *)
(***************************************************************************)
\* Half the granularity of the standard strikes around price, in pips.
HalfIncrement(price) ==
    IF price < Pips(10) THEN E4 \div 4
    ELSE IF price < Pips(100) THEN E4 \div 2
    ELSE IF price < Pips(500) THEN Pips(5) \div 2
    ELSE Pips(5)

\* A call with target > 0.95 * current or a put with target < 1.05 * current.
WellFormed(a) ==
    /\ a.target.hi = 0
    /\ IF a.is_call THEN 100 * a.target.lo > 95 * a.current.lo
       ELSE 100 * a.target.lo < 105 * a.current.lo

\* The range of the candidates: from 0.95 * current to target for a call, from
\* target to 1.05 * current for a put (times 100).
RangeLow(a) == IF a.is_call THEN 95 * a.current.lo ELSE 100 * a.target.lo
RangeHigh(a) == IF a.is_call THEN 100 * a.target.lo ELSE 105 * a.current.lo

\* C7: for a well-formed setup the candidate list is not empty and each
\* candidate lies within half a strike increment of the range between the
\* 5%-in-the-money bound and the target.
C7_CandidatesSpanRange ==
    (Returned("generate_strike_candidates") /\ WellFormed(args))
        => /\ res.kind = "ok"
           /\ Len(res.strikes) > 0
           /\ \A i \in 1..Len(res.strikes) :
                 LET k == res.strikes[i].lo
                 IN  /\ 100 * (k + HalfIncrement(k)) >= RangeLow(args)
                     /\ 100 * (k - HalfIncrement(k)) <= RangeHigh(args)

\* C8: _generate_strike_candidates terminates, and its list is strictly
\* ascending and made of standard strikes.
C8_TerminatesSortedStandard ==
    Returned("generate_strike_candidates")
        => /\ res.kind = "ok"
           /\ \A i \in 1..Len(res.strikes) :
                 /\ RoundToStandardStrike(res.strikes[i]) = res.strikes[i]
                 /\ i > 1 => NumLess(res.strikes[i - 1], res.strikes[i])

(***************************************************************************)
(* Properties of the spread and the butterfly                              *)
(***************************************************************************)
\* C11: every butterfly find_butterfly_strategy returns has wings symmetric
\* around the center strike: atm_strike - lower_strike equals
\* upper_strike - atm_strike.
C11_SymmetricWings ==
    Found("find_butterfly_strategy") =>
        res.atm_strike - res.lower_strike = res.upper_strike - res.atm_strike

\* The spread and the butterfly.
DebitOperations == {"find_spread_strategy", "find_butterfly_strategy"}

\* The call priced every leg and computed a net debit.
ComputedDebit == pc = "done" /\ op \in DebitOperations /\ "net_debit" \in DOMAIN obs

\* C12: find_spread_strategy and find_butterfly_strategy return found=False
\* whenever the computed net debit is <= 0; every found result was computed
\* from a net debit > 0, its max_loss is net_debit * contracts * 100 and, for
\* the vertical spread, its max_profit is
\* (|short_strike - long_strike| - net_debit) * contracts * 100, both reported
\* in whole dollars.
C12_DebitStrategies ==
    /\ ComputedDebit /\ obs.net_debit <= 0 => res.kind = "ok" /\ ~res.found
    /\ \A name \in DebitOperations : Found(name) =>
          /\ ComputedDebit /\ obs.net_debit > 0
          /\ obs.max_loss = obs.net_debit * res.contracts
          /\ res.max_loss = RoundHalfEven(obs.max_loss, 100)
    /\ Found("find_spread_strategy") =>
          /\ obs.max_profit =
                (Abs(res.short_strike - res.long_strike) - obs.net_debit) * res.contracts
          /\ res.max_profit = RoundHalfEven(obs.max_profit, 100)

\* C12 witness: a put spread, whose short strike is below its long strike,
\* is found with a positive maximum profit.
C12_Witness ==
    /\ Found("find_spread_strategy")
    /\ ~args.is_call
    /\ res.short_strike < res.long_strike
    /\ obs.net_debit > 0
    /\ res.max_profit > 0

\* C12 witness of the rejection: a strategy priced at no debit is not found.
C12_RejectedWitness == ComputedDebit /\ obs.net_debit <= 0 /\ ~res.found

\* C13: every found result of find_best_strike, find_spread_strategy and
\* find_butterfly_strategy has a whole number of contracts between 1 and
\* max_contracts (100), and a spread or butterfly whose net debit for one
\* unit (net_debit * 100) is more than risk_amount is not found.
C13_ContractsWithinBounds ==
    /\ \A name \in StrategyOperations :
          Found(name) => res.contracts \in 1..MaxContracts
    /\ ComputedDebit /\ obs.net_debit > 0 /\ args.risk_amount < obs.net_debit =>
          res.kind = "ok" /\ ~res.found

(***************************************************************************)
(* OptionsCalculator.convert_spx_levels                                    *)
(* An index level is a Python float [pips, ulps]: pips / 10^4 dollars, a   *)
(* whole multiple of 10 dollars in the binade [4096, 8192), plus ulps      *)
(* doubles of that binade (2^-40 dollars each).  The levels of SPX and ES  *)
(* stay in that binade and keep its ulp; the levels of SPY and XSP lie in  *)
(* [512, 1024), where a double is 2^-43 dollars.                           *)
(***************************************************************************)
ConversionFactorsXspWhole == [SPY |-> 1000, ES |-> E4, XSP |-> E4, SPX |-> E4]

\* self.conversion_factors, in e4.
ConversionFactors == [SPY |-> 1000, ES |-> E4, XSP |-> 1000, SPX |-> E4]

DividendYield == 14200                    \* dividend_yield = 0.0142, in e6
EsDaysToExpiry == 30                      \* days_to_expiry = 30

Level(pips, ulps) == [pips |-> pips, ulps |-> ulps]
LevelLess(x, y) == x.pips < y.pips \/ (x.pips = y.pips /\ x.ulps < y.ulps)

\* level * factor in double arithmetic.  The factor 1.0 leaves the double as
\* it is.  The literal 0.1 is the double 0.1 * (1 + 2^-54), so the product
\* with base + u * 2^-40 is base / 10 + (0.8 u + base / 20480) * 2^-43,
\* rounded to the nearest double of [512, 1024), ties to even.
TimesFactor(level, factor) ==
    IF factor = E4 THEN level
    ELSE Level(MulDiv(level.pips, factor, E4),
               RoundHalfEven(16384 * level.ulps + level.pips \div E4, 20480))

\* The fair value with the dividend yield left out of the carry.
EsFairValueNoDividend(spx_price) ==
    LET time_to_expiry == 48 * EsDaysToExpiry
        fair_value_multiplier == ExpE6(TimesYears(RiskFreeRate, time_to_expiry))
        theoretical_futures == MulDiv(spx_price.pips, fair_value_multiplier, E6)
    IN  theoretical_futures - spx_price.pips

\* OptionsCalculator._calculate_es_fair_value(spx_price), in pips: the
\* product and the difference are doubles of the binade of spx_price, whose
\* ulps cancel in the difference.
EsFairValue(spx_price) ==
    LET time_to_expiry == 48 * EsDaysToExpiry                  \* half hours
        fair_value_multiplier ==
            ExpE6(TimesYears(RiskFreeRate - DividendYield, time_to_expiry))
        theoretical_futures == MulDiv(spx_price.pips, fair_value_multiplier, E6)
    IN  theoretical_futures - spx_price.pips

\* The ES record with the fair value added to the entry alone.
EsRecordEntryOnly(spx_entry, spx_sl, spx_tp) ==
    LET fair_value == EsFairValue(spx_entry)
    IN  [entry |-> Level(spx_entry.pips + fair_value, spx_entry.ulps),
         sl |-> spx_sl, tp |-> spx_tp, multiplier |-> E4, fair_value |-> fair_value]

\* conversions['ES'] of convert_spx_levels.
EsRecord(spx_entry, spx_sl, spx_tp) ==
    LET fair_value == EsFairValue(spx_entry)
    IN  [entry |-> Level(spx_entry.pips + fair_value, spx_entry.ulps),
         sl |-> Level(spx_sl.pips + fair_value, spx_sl.ulps),
         tp |-> Level(spx_tp.pips + fair_value, spx_tp.ulps),
         multiplier |-> E4,
         fair_value |-> fair_value]

\* OptionsCalculator.convert_spx_levels(spx_entry, spx_sl, spx_tp): the
\* mapping from instrument to its record.
ConvertSpxLevels(spx_entry, spx_sl, spx_tp) ==
    [instrument \in DOMAIN ConversionFactors |->
        LET factor == ConversionFactors[instrument]
        IN  IF instrument = "ES" THEN EsRecord(spx_entry, spx_sl, spx_tp)
            ELSE IF instrument = "SPX"
            THEN [entry |-> spx_entry, sl |-> spx_sl, tp |-> spx_tp, multiplier |-> factor]
            ELSE [entry |-> TimesFactor(spx_entry, factor),
                  sl |-> TimesFactor(spx_sl, factor),
                  tp |-> TimesFactor(spx_tp, factor),
                  multiplier |-> factor]]

IndexDollars == {5780, 5790, 5800, 5840}
MaxUlps == 4
IndexLevels == {Level(Pips(d), u) : d \in IndexDollars, u \in 0..MaxUlps}

ConvertSpxLevelsCall ==
    /\ pc = "idle"
    /\ \E spx_entry \in IndexLevels, spx_sl \in IndexLevels, spx_tp \in IndexLevels :
          /\ pc' = "done"
          /\ op' = "convert_spx_levels"
          /\ args' = [spx_entry |-> spx_entry, spx_sl |-> spx_sl, spx_tp |-> spx_tp]
          /\ res' = ConvertSpxLevels(spx_entry, spx_sl, spx_tp)
          /\ obs' = <<>>

NextLevels == ConvertSpxLevelsCall \/ Return

SpecLevels == Init /\ [][NextLevels]_vars

(***************************************************************************)
(* Properties of convert_spx_levels                                        *)
(***************************************************************************)
LevelFields == {"entry", "sl", "tp"}

\* The index level a field of a record is converted from.
IndexOf == [entry |-> args.spx_entry, sl |-> args.spx_sl, tp |-> args.spx_tp]

\* C14: convert_spx_levels returns a mapping with exactly the instruments
\* SPY, XSP, ES and SPX; the SPY and XSP levels are 0.1 times the index
\* levels, to the nearest double (index 5800/5780/5840 gives SPY
\* 580.0/578.0/584.0 exactly); the SPX levels are the index levels; only the
\* ES record has a fair_value field.
C14_ConvertedLevels ==
    Returned("convert_spx_levels") =>
        /\ DOMAIN res = {"SPY", "XSP", "ES", "SPX"}
        /\ \A i \in {"SPY", "XSP"}, f \in LevelFields :
              /\ 10 * res[i][f].pips = IndexOf[f].pips
              /\ Abs(10 * res[i][f].ulps - 8 * IndexOf[f].ulps) < 10
        /\ args = [spx_entry |-> Level(Pips(5800), 0), spx_sl |-> Level(Pips(5780), 0),
                   spx_tp |-> Level(Pips(5840), 0)]
              => /\ res.SPY.entry = Level(Pips(580), 0)
                 /\ res.SPY.sl = Level(Pips(578), 0)
                 /\ res.SPY.tp = Level(Pips(584), 0)
        /\ \A f \in LevelFields : res.SPX[f] = IndexOf[f]
        /\ \A i \in DOMAIN res : "fair_value" \in DOMAIN res[i] <=> i = "ES"

\* C14 witness: the index levels 5800/5780/5840 are converted.
C14_Witness ==
    /\ Returned("convert_spx_levels")
    /\ args = [spx_entry |-> Level(Pips(5800), 0), spx_sl |-> Level(Pips(5780), 0),
               spx_tp |-> Level(Pips(5840), 0)]
    /\ res.SPY.entry = Level(Pips(580), 0)
    /\ res.XSP.tp = Level(Pips(584), 0)

\* indexPrice * (exp((r - q) * t) - 1) with r = 0.0525, q = 0.0142 and
\* t = 30/365, in pips.
CarryOffset(level) ==
    MulDiv(level.pips, ExpE6(MulDiv(52500 - 14200, 30, 365)) - E6, E6)

\* C15 as stated: the ES conversion adds to each index level (entry, stop,
\* target) the fair-value offset of that level's own index price.
C15_OwnOffsetPerLevel ==
    Returned("convert_spx_levels") =>
        \A f \in LevelFields :
            Abs(res.ES[f].pips - (IndexOf[f].pips + CarryOffset(IndexOf[f]))) <= 1

\* C15 amended: the ES conversion adds to each index level (entry, stop,
\* target) one and the same offset, the fair value of the index entry,
\* entry * (exp((r - q) * t) - 1) with r = 0.0525, q = 0.0142, t = 30/365,
\* which is the record's fair_value.
C15_EntryOffsetForAll ==
    Returned("convert_spx_levels") =>
        /\ Abs(res.ES.fair_value - CarryOffset(args.spx_entry)) <= 1
        /\ \A f \in LevelFields :
              res.ES[f] = Level(IndexOf[f].pips + res.ES.fair_value, IndexOf[f].ulps)

\* C15 witness: a long setup whose stop and target are other prices than
\* its entry is converted.
C15_Witness ==
    /\ Returned("convert_spx_levels")
    /\ args.spx_sl.pips < args.spx_entry.pips
    /\ args.spx_entry.pips < args.spx_tp.pips
    /\ res.ES.sl.pips = args.spx_sl.pips + res.ES.fair_value
    /\ CarryOffset(args.spx_sl) < res.ES.fair_value - 1

Long(r) == LevelLess(r.sl, r.entry) /\ LevelLess(r.entry, r.tp)
Short(r) == LevelLess(r.tp, r.entry) /\ LevelLess(r.entry, r.sl)
LongOrFlat(r) == ~LevelLess(r.entry, r.sl) /\ ~LevelLess(r.tp, r.entry)
ShortOrFlat(r) == ~LevelLess(r.entry, r.tp) /\ ~LevelLess(r.sl, r.entry)

\* C16 as stated: if stop < entry < target (long) or target < entry < stop
\* (short) holds for the index levels, the same strict ordering holds for
\* the converted entry, sl and tp of SPY, XSP, ES and SPX.
C16_StrictDirectionKept ==
    Returned("convert_spx_levels") =>
        \A i \in DOMAIN res :
            /\ Long(IndexOf) => Long(res[i])
            /\ Short(IndexOf) => Short(res[i])

\* C16 amended: if stop < entry < target (long) or target < entry < stop
\* (short) holds for the index levels, then converted sl <= entry <= tp
\* (long) or tp <= entry <= sl (short) holds for SPY, XSP and ES, and the
\* strict ordering for SPX.
C16_DirectionNeverReversed ==
    Returned("convert_spx_levels") =>
        /\ \A i \in DOMAIN res :
              /\ Long(IndexOf) => LongOrFlat(res[i])
              /\ Short(IndexOf) => ShortOrFlat(res[i])
        /\ Long(IndexOf) => Long(res.SPX)
        /\ Short(IndexOf) => Short(res.SPX)

\* C16 witness: a long setup whose stop is one double below its entry is
\* converted to an SPY stop equal to the SPY entry.
C16_Witness ==
    /\ Returned("convert_spx_levels")
    /\ Long(IndexOf)
    /\ res.SPY.sl = res.SPY.entry
    /\ LevelLess(res.SPY.entry, res.SPY.tp)

(***************************************************************************)
(* OptionsCalculator.calculate_probability_of_profit and                   *)
(* calculate_option_pl called on their own, with Python numbers            *)
(***************************************************************************)
\* calculate_probability_of_profit(current_price, break_even, dte, iv,
\* is_bullish) for Python numbers: break_even / current_price is then a
\* Python division, which raises for current_price == 0.
ProbabilityOfProfit(current_price, break_even, dte, iv, is_bullish) ==
    IF dte > 0 /\ current_price = 0
    THEN [kind |-> "raise", error |-> "ZeroDivisionError"]
    ELSE [kind |-> "ok",
          v |-> CalculateProbabilityOfProfit(current_price, break_even, dte, iv, is_bullish)]

\* The profit with spot - strike (strike - spot) in place of the intrinsic
\* value.
CalculateOptionPlLinear(spot_price, strike, premium, contracts, is_call) ==
    LET intrinsic_value == IF is_call THEN spot_price - strike ELSE strike - spot_price
    IN  (intrinsic_value - premium) * contracts

\* OptionsCalculator.calculate_option_pl, in cents (prices in pips).
CalculateOptionPl(spot_price, strike, premium, contracts, is_call) ==
    LET intrinsic_value == IF is_call THEN Max(spot_price - strike, 0)
                           ELSE Max(strike - spot_price, 0)
    IN  (intrinsic_value - premium) * contracts

ProbabilityPrices == {0, Pips(90), Pips(100)}
Breakevens == {-Pips(90), 0, Pips(90), Pips(100), Pips(110)}
ProbabilityDtes == {-1, 0, 7, 30}
ProbabilityIvs == {0, 2000, 5000}

CalculateProbabilityOfProfitCall ==
    /\ pc = "idle"
    /\ \E current_price \in ProbabilityPrices, break_even \in Breakevens,
          dte \in ProbabilityDtes, iv \in ProbabilityIvs, is_bullish \in BOOLEAN :
          /\ pc' = "done"
          /\ op' = "calculate_probability_of_profit"
          /\ args' = [current_price |-> current_price, break_even |-> break_even,
                      dte |-> dte, iv |-> iv, is_bullish |-> is_bullish]
          /\ res' = ProbabilityOfProfit(current_price, break_even, dte, iv, is_bullish)
          /\ obs' = <<>>

ExpirySpots == {Pips(90), Pips(100), Pips(110)}
PlStrikes == {Pips(95), Pips(100)}
Premiums == {0, 25000, Pips(15)}
ContractCounts == {-1, 0, 1, 5, 100}

CalculateOptionPlCall ==
    /\ pc = "idle"
    /\ \E spot_price \in ExpirySpots, strike \in PlStrikes, premium \in Premiums,
          contracts \in ContractCounts, is_call \in BOOLEAN :
          /\ pc' = "done"
          /\ op' = "calculate_option_pl"
          /\ args' = [spot_price |-> spot_price, strike |-> strike, premium |-> premium,
                      contracts |-> contracts, is_call |-> is_call]
          /\ res' = CalculateOptionPl(spot_price, strike, premium, contracts, is_call)
          /\ obs' = <<>>

NextCalculator == CalculateProbabilityOfProfitCall \/ CalculateOptionPlCall \/ Return

SpecCalculator == Init /\ [][NextCalculator]_vars

(***************************************************************************)
(* Properties of the calculator's functions                                *)
(***************************************************************************)
\* The current price is strictly beyond the breakeven on the side of the
\* trade.
Favorable(a) ==
    \/ a.is_bullish /\ a.current_price > a.break_even
    \/ ~a.is_bullish /\ a.current_price < a.break_even

\* C17: calculate_probability_of_profit returns a value in [0, 1] for all
\* inputs with dte > 0; for dte <= 0 it returns exactly 1.0 when the current
\* price is strictly beyond the breakeven in the favorable direction and
\* exactly 0.0 otherwise, also when the two are equal.
C17_ProbabilityInUnitInterval ==
    Returned("calculate_probability_of_profit") =>
        /\ res.kind = "ok"
        /\ res.v \in 0..E6
        /\ args.dte <= 0 => res.v = IF Favorable(args) THEN E6 ELSE 0

\* The option expires out of the money (or at the money).
OutOfTheMoney(a) ==
    IF a.is_call THEN a.spot_price <= a.strike ELSE a.spot_price >= a.strike

\* C19: calculate_option_pl returns (intrinsic value - premium) * contracts
\* * 100 with intrinsic value max(spot - strike, 0) for a call and
\* max(strike - spot, 0) for a put; for contracts >= 0 the loss is never
\* larger than premium * contracts * 100, and it is exactly that amount when
\* the option expires out of the money.
C19_OptionProfitAndLoss ==
    Returned("calculate_option_pl") =>
        /\ \/ /\ args.is_call
              /\ args.spot_price > args.strike
              /\ res = (args.spot_price - args.strike - args.premium) * args.contracts
           \/ /\ ~args.is_call
              /\ args.strike > args.spot_price
              /\ res = (args.strike - args.spot_price - args.premium) * args.contracts
           \/ /\ OutOfTheMoney(args)
              /\ res = -(args.premium * args.contracts)
        /\ args.contracts >= 0 => -res <= args.premium * args.contracts

\* C19 witness: a position of several contracts is valued at an expiry out of
\* the money and loses its whole premium.
C19_Witness ==
    /\ Returned("calculate_option_pl")
    /\ args.contracts > 1
    /\ args.premium > 0
    /\ OutOfTheMoney(args)
    /\ args.spot_price # args.strike
    /\ res = -(args.premium * args.contracts)

\* C18: black_scholes with T <= 0 returns the intrinsic value, max(S-K, 0)
\* for a call and max(K-S, 0) for a put, for every S, K, r and sigma (also
\* sigma <= 0), and the result is never negative.
C18_ExpiredIsIntrinsic ==
    Returned("black_scholes") /\ args.T <= 0 =>
        /\ res.kind = "ok"
        /\ res.v >= 0
        /\ \/ args.option_type = "call" /\ args.S >= args.K /\ res.v = args.S - args.K
           \/ args.option_type = "call" /\ args.S <= args.K /\ res.v = 0
           \/ args.option_type = "put" /\ args.K >= args.S /\ res.v = args.K - args.S
           \/ args.option_type = "put" /\ args.K <= args.S /\ res.v = 0

\* C18 witness: an expired put with no volatility and a strike of 0, below
\* the spot, is priced at 0.
C18_Witness ==
    /\ Returned("black_scholes")
    /\ args.T < 0
    /\ args.sigma <= 0
    /\ args.option_type = "put"
    /\ args.K = 0
    /\ args.S > 0
    /\ res = [kind |-> "ok", v |-> 0]

(***************************************************************************)
(* OptionsCalculator.calculate_implied_volatility: the Newton-Raphson loop *)
(* one iteration at a time.  While the loop runs, obs holds sigma (e4) and *)
(* the number of iterations begun.                                         *)
(***************************************************************************)
InitialSigma == 2000                      \* sigma = 0.2
MaxIterations == 100                      \* range(100)
Tolerance == 10                           \* abs(price_diff) < 0.001, in pips
MinVega == 1                              \* vega > 0.0001, in pips
MinSigma == 10                            \* 0.001
MaxSigma == 50000                         \* 5.0

\* stats.norm.pdf of a numpy double, in e6.
ExtPdf(x) ==
    IF x.k = "nan" THEN NaN
    ELSE IF x.k # "fin" \/ Abs(x.v) > 10 * E6 THEN Fin(0)
    ELSE Fin(MulDiv(ExpE6(-MulDiv(x.v, x.v, 2 * E6)), E6, 2506628))

\* OptionsCalculator.calculate_vega_for_iv, in pips per unit of sigma:
\* S * norm.pdf(d1) * sqrt(T).  S / K raises for K == 0; np.sqrt of a
\* negative T is NaN and a division by sigma * sqrt(T) == 0 does not raise.
CalculateVegaForIv(S, K, th, r, sigma) ==
    IF K = 0 THEN [kind |-> "raise", error |-> "ZeroDivisionError"]
    ELSE IF th < 0 THEN [kind |-> "nan"]
    ELSE LET vol == MulDiv(sigma, SqrtYears(th), 1000)
             num == ExtAdd(NpLog(S, K), TimesYears(r + MulDiv(sigma, sigma, 200), th))
             pdf == ExtPdf(ExtDiv(num, vol))
         IN  IF pdf.k = "nan" THEN [kind |-> "nan"]
             ELSE [kind |-> "ok", v |-> MulDiv(MulDiv(S, pdf.v, E6), SqrtYears(th), 100000)]

\* max(0, min(sigma, 5.0)): the lower bound 0 in place of 0.001.
ClampSigmaAtZero(sigma) ==
    IF sigma.k = "nan" THEN 0 ELSE Max(0, Min(sigma.v, MaxSigma))

\* max(0.001, min(sigma, 5.0)) of Python: min(nan, 5.0) is nan and
\* max(0.001, nan) is 0.001.
ClampSigma(sigma) ==
    IF sigma.k = "nan" THEN MinSigma ELSE Max(MinSigma, Min(sigma.v, MaxSigma))

\* The loop body with sigma + price_diff / max(vega, 0.0001) in every pass
\* in place of the test of vega.
NewtonUpdateFloorVega(option_price, sigma, price, vega) ==
    LET price_diff == IF price.kind = "ok" THEN Fin(option_price - price.v) ELSE NaN
        floored == IF vega.kind = "ok" THEN Max(vega.v, MinVega) ELSE MinVega
    IN  IF price.kind = "raise" THEN [exit |-> "raise", error |-> price.error, sigma |-> sigma]
        ELSE IF vega.kind = "raise" THEN [exit |-> "raise", error |-> vega.error, sigma |-> sigma]
        ELSE IF price_diff.k = "fin" /\ Abs(price_diff.v) < Tolerance
        THEN [exit |-> "return", sigma |-> sigma]
        ELSE [exit |-> "continue",
              sigma |-> ClampSigma(
                  IF price_diff.k = "nan" THEN NaN
                  ELSE IF Abs(price_diff.v) \div floored >= 10
                  THEN Fin(sigma + Sgn(price_diff.v) * 10 * E4)
                  ELSE Fin(sigma + MulDiv(price_diff.v, E4, floored)))]

\* The loop body after pricing, lines 179-188: converged, or sigma updated
\* where vega allows it.  NaN compares false with everything.
NewtonUpdate(option_price, sigma, price, vega) ==
    LET price_diff == IF price.kind = "ok" THEN Fin(option_price - price.v) ELSE NaN
    IN  IF price.kind = "raise" THEN [exit |-> "raise", error |-> price.error, sigma |-> sigma]
        ELSE IF vega.kind = "raise" THEN [exit |-> "raise", error |-> vega.error, sigma |-> sigma]
        ELSE IF price_diff.k = "fin" /\ Abs(price_diff.v) < Tolerance
        THEN [exit |-> "return", sigma |-> sigma]
        ELSE IF vega.kind = "ok" /\ vega.v > MinVega
        THEN [exit |-> "continue",
              sigma |-> ClampSigma(IF price_diff.k = "nan" THEN NaN
                                   ELSE Fin(sigma + MulDiv(price_diff.v, E4, vega.v)))]
        ELSE [exit |-> "continue", sigma |-> sigma]

\* One pass of the loop body at sigma: what the pass does and the sigma it
\* leaves.
NewtonStep(a, sigma) ==
    NewtonUpdate(a.option_price, sigma,
                 BlackScholes(a.S, a.K, a.T, a.r, sigma, a.option_type),
                 CalculateVegaForIv(a.S, a.K, a.T, a.r, sigma))

ObservedPrices == {0, 2000, 25000, Pips(5), Pips(12), Pips(200)}
VolSpots == {0, Pips(100)}
VolStrikes == {0, Pips(90), Pips(100), Pips(110)}
VolTimes == {-48, 0, 48 * 7, 48 * 30}

\* The call: sigma = 0.2 before the first iteration.
ImpliedVolatilityStart ==
    /\ pc = "idle"
    /\ \E option_price \in ObservedPrices, S \in VolSpots, K \in VolStrikes,
          th \in VolTimes, option_type \in {"call", "put"} :
          /\ pc' = "loop"
          /\ op' = "calculate_implied_volatility"
          /\ args' = [option_price |-> option_price, S |-> S, K |-> K, T |-> th,
                      r |-> RiskFreeRate, option_type |-> option_type]
          /\ res' = <<>>
          /\ obs' = [sigma |-> InitialSigma, iterations |-> 0, exhausted |-> FALSE]

\* One iteration of `for _ in range(100)`.
ImpliedVolatilityIterate ==
    /\ pc = "loop"
    /\ obs.iterations < MaxIterations
    /\ LET step == NewtonStep(args, obs.sigma)
       IN  /\ obs' = [obs EXCEPT !.sigma = step.sigma, !.iterations = @ + 1]
           /\ pc' = IF step.exit = "continue" THEN "loop" ELSE "done"
           /\ res' = IF step.exit = "continue" THEN res
                     ELSE IF step.exit = "return" THEN [kind |-> "ok", v |-> step.sigma]
                     ELSE [kind |-> "raise", error |-> step.error]
    /\ UNCHANGED <<op, args>>

\* The `return sigma` after the loop.
ImpliedVolatilityExhausted ==
    /\ pc = "loop"
    /\ obs.iterations >= MaxIterations
    /\ pc' = "done"
    /\ res' = [kind |-> "ok", v |-> obs.sigma]
    /\ obs' = [obs EXCEPT !.exhausted = TRUE]
    /\ UNCHANGED <<op, args>>

NextImpliedVolatility ==
    \/ ImpliedVolatilityStart
    \/ ImpliedVolatilityIterate
    \/ ImpliedVolatilityExhausted
    \/ Return

SpecImpliedVolatility == Init /\ [][NextImpliedVolatility]_vars

(***************************************************************************)
(* Properties of calculate_implied_volatility                              *)
(***************************************************************************)
InImpliedVolatility == op = "calculate_implied_volatility" /\ pc \in {"loop", "done"}

\* No more than 100 iterations are begun; what is returned lies in
\* [0.001, 5.0]; the exhausted loop returns its last iterate and no error.
WithinBudgetAndRange ==
    InImpliedVolatility =>
        /\ obs.iterations <= 100
        /\ pc = "done" /\ res.kind = "ok" => res.v >= 10 /\ res.v <= 50000
        /\ pc = "done" /\ obs.exhausted => res = [kind |-> "ok", v |-> obs.sigma]

\* A step of the running loop either ends the call or begins one more
\* iteration.
LoopAdvances ==
    pc = "loop" => \/ pc' = "done"
                   \/ pc' = "loop" /\ obs'.iterations = obs.iterations + 1

\* C20: calculate_implied_volatility always terminates, after at most 100
\* pricing iterations: each step of the running loop ends the call or counts
\* one more iteration, and the count never exceeds 100.  It raises no error
\* when the iteration budget is exhausted without convergence and returns
\* the last iterate; every value it returns lies in [0.001, 5.0].
C20_TerminatesWithinBudget ==
    /\ [](WithinBudgetAndRange)
    /\ [][LoopAdvances]_vars

\* C20 witness: the budget of 100 iterations is exhausted on a price no
\* volatility reaches, and the lower bound 0.001 is returned.
C20_Witness ==
    /\ Returned("calculate_implied_volatility")
    /\ obs.exhausted
    /\ obs.iterations = 100
    /\ args.T > 0
    /\ res = [kind |-> "ok", v |-> 10]

\* The iteration at the sigma of the running loop finds no convergence and
\* no vega above 1e-4.
VegaTooSmall ==
    LET price == BlackScholes(args.S, args.K, args.T, args.r, obs.sigma, args.option_type)
        vega  == CalculateVegaForIv(args.S, args.K, args.T, args.r, obs.sigma)
    IN  /\ price.kind # "raise" /\ vega.kind # "raise"
        /\ ~(price.kind = "ok" /\ Abs(args.option_price - price.v) < 10)
        /\ ~(vega.kind = "ok" /\ vega.v > 1)

\* C21: in calculate_implied_volatility an iteration updates sigma only when
\* vega > 1e-4; once an iteration finds vega <= 1e-4 without convergence,
\* sigma stays unchanged in every later iteration (each leaves the loop at
\* the same sigma, where the next finds the same vega) and that sigma is
\* returned after the 100th iteration.
C21_FrozenSigma ==
    [][pc = "loop" /\ op = "calculate_implied_volatility" =>
          /\ pc' = "loop" /\ obs'.sigma # obs.sigma => ~VegaTooSmall
          /\ VegaTooSmall =>
                \/ pc' = "loop" /\ obs'.sigma = obs.sigma
                \/ /\ pc' = "done" /\ obs'.exhausted /\ obs.iterations = 100
                   /\ res' = [kind |-> "ok", v |-> obs.sigma]]_vars

\* C21 witness: a loop that moved sigma and then found no vega returns the
\* sigma it was left with after 100 iterations.
C21_Witness ==
    /\ Returned("calculate_implied_volatility")
    /\ obs.exhausted
    /\ VegaTooSmall
    /\ args.T > 0
    /\ res.v # 2000
    /\ res.v = obs.sigma

(***************************************************************************)
(* The round trip calculate_implied_volatility(black_scholes(sigma))       *)
(***************************************************************************)
RoundTripSigmas == {500, 2000, 3000, 10000, 20000}          \* 0.05 .. 2.0
RoundTripStrikes == {Pips(90), Pips(100), Pips(110), Pips(150)}
RoundTripTimes == {48 * 7, 48 * 30}

\* calculate_implied_volatility called with the price black_scholes gives at
\* sigma (kept in args).
RoundTripStart ==
    /\ pc = "idle"
    /\ \E sigma \in RoundTripSigmas, K \in RoundTripStrikes, th \in RoundTripTimes,
          option_type \in {"call", "put"} :
          /\ pc' = "loop"
          /\ op' = "calculate_implied_volatility"
          /\ args' = [option_price |->
                          BlackScholes(Pips(100), K, th, RiskFreeRate, sigma, option_type).v,
                      S |-> Pips(100), K |-> K, T |-> th, r |-> RiskFreeRate,
                      option_type |-> option_type, sigma |-> sigma]
          /\ res' = <<>>
          /\ obs' = [sigma |-> InitialSigma, iterations |-> 0, exhausted |-> FALSE]

NextRoundTrip ==
    \/ RoundTripStart
    \/ ImpliedVolatilityIterate
    \/ ImpliedVolatilityExhausted
    \/ Return

SpecRoundTrip == Init /\ [][NextRoundTrip]_vars

\* C22: round trip: for every sigma in [0.05, 2.0] and valid S, K, T > 0 and
\* r, calculate_implied_volatility(black_scholes(S, K, T, r, sigma, type),
\* S, K, T, r, type) returns a value within 1e-3 of sigma.
C22_RoundTrip ==
    Returned("calculate_implied_volatility") =>
        /\ res.kind = "ok"
        /\ Abs(res.v - args.sigma) <= 10

(***************************************************************************)
(* black_scholes for a call and a put on the same inputs                   *)
(***************************************************************************)
Fine == 10 * E6                                   \* 1e-7 dollar units per dollar
ParitySpots == {20 * Fine, 40 * Fine, 50 * Fine, 60 * Fine}
ParityStrikes == {30 * Fine, 45 * Fine, 50 * Fine}
ParityTimes == {2, 48 * 7, 48 * 30, 48 * 60}
ParityRates == {-10000, 0, 20000, RiskFreeRate}        \* e6
ParitySigmas == {100, 2000, 5000, 20000}               \* e4

\* K * np.exp(-r * T), in the units of K.
Discounted(K, th, r) == MulDiv(K, ExpE6(-TimesYears(r, th)), E6)

\* black_scholes(..., 'put') with the undiscounted strike.
BlackScholesUndiscountedPut(S, K, th, r, sigma, option_type) ==
    IF option_type = "call" THEN BlackScholes(S, K, th, r, sigma, option_type)
    ELSE BlackScholes(S, MulDiv(K, E6, ExpE6(-TimesYears(r, th))), th, r, sigma, option_type)

\* black_scholes as called for one contract of either type.
BlackScholesOf(S, K, th, r, sigma, option_type) ==
    BlackScholes(S, K, th, r, sigma, option_type)

\* Both premiums of one strike (prices in 1e-7 dollars).
BlackScholesPairCall ==
    /\ pc = "idle"
    /\ \E S \in ParitySpots, K \in ParityStrikes, th \in ParityTimes,
          r \in ParityRates, sigma \in ParitySigmas :
          /\ pc' = "done"
          /\ op' = "black_scholes_pair"
          /\ args' = [S |-> S, K |-> K, T |-> th, r |-> r, sigma |-> sigma]
          /\ res' = [kind |-> "ok",
                     call |-> BlackScholesOf(S, K, th, r, sigma, "call"),
                     put  |-> BlackScholesOf(S, K, th, r, sigma, "put")]
          /\ obs' = <<>>

NextParity == BlackScholesPairCall \/ Return

SpecParity == Init /\ [][NextParity]_vars

Multipliers == [SPY |-> 100, XSP |-> 100, ES |-> 50, SPX |-> 100]

\* The fields the two constructors assign.
Constructed ==
    [min_probability |-> MinProbability, max_contracts |-> MaxContracts,
     risk_free_rate |-> RiskFreeRate, conversion_factors |-> ConversionFactors,
     multipliers |-> Multipliers]

\* A spread search that leaves the contracts it found as the new cap.
FieldsAfterCapLowered(name, self, r) ==
    IF name = "find_spread_strategy" /\ r.found
    THEN [self EXCEPT !.max_contracts = r.contracts]
    ELSE self

\* The fields after a call of the method `name` that returned r: none of the
\* four methods assigns to an attribute or changes a dictionary.
FieldsAfter(name, self, r) == self

MaxCalls == 3
SessionSetups ==
    {s \in Setups : /\ s.current_price = Pips(100) /\ s.entry = 1 /\ s.dte = 7
                    /\ s.risk_amount = 34680 /\ s.iv = 2000}
SessionLevels == {Level(Pips(5800), 0), Level(Pips(5840), 3)}

\* A call of `name` on the object, the first one constructing it.  The
\* methods read the fields, compute from them and the arguments alone (no
\* clock, no random number, no module variable), and return.  obs keeps the
\* fields, the first call with its result, and the methods called so far.
SessionCall(name, f) ==
    /\ pc \in {"idle", "session"}
    /\ pc = "session" => Len(obs.ops) < MaxCalls
    /\ \E a \in DOMAIN f :
          LET r == f[a].res
          IN  /\ pc' = "session"
              /\ op' = name
              /\ args' = a
              /\ res' = r
              /\ obs' = IF pc = "idle"
                        THEN [self  |-> FieldsAfter(name, Constructed, r),
                              first |-> [op |-> name, args |-> a, res |-> r],
                              ops   |-> <<name>>]
                        ELSE [self  |-> FieldsAfter(name, obs.self, r),
                              first |-> obs.first,
                              ops   |-> Append(obs.ops, name)]

SessionFindBestStrike ==
    SessionCall("find_best_strike",
                [a \in {Setup(s) @@ [stop |-> 0] : s \in SessionSetups} |-> FindBestStrike(a)])

SessionFindSpreadStrategy ==
    SessionCall("find_spread_strategy",
                [a \in {Setup(s) : s \in SessionSetups} |-> FindSpreadStrategy(a)])

SessionFindButterflyStrategy ==
    SessionCall("find_butterfly_strategy",
                [a \in {b \in ButterflySetups : b.current_price = Pips(100) /\ b.dte = 7
                                                /\ b.risk_amount = 34680 /\ b.iv = 2000}
                    |-> FindButterflyStrategy(a)])

SessionConvertSpxLevels ==
    SessionCall("convert_spx_levels",
                [a \in [spx_entry : SessionLevels, spx_sl : SessionLevels,
                        spx_tp : SessionLevels]
                    |-> [res |-> ConvertSpxLevels(a.spx_entry, a.spx_sl, a.spx_tp)]])

\* The object is dropped.
SessionEnd ==
    /\ pc = "session"
    /\ pc' = "idle" /\ op' = "none" /\ args' = <<>> /\ res' = <<>> /\ obs' = <<>>

NextSession ==
    \/ SessionFindBestStrike
    \/ SessionFindSpreadStrategy
    \/ SessionFindButterflyStrategy
    \/ SessionConvertSpxLevels
    \/ SessionEnd

SpecSession == Init /\ [][NextSession]_vars

\* C24: find_best_strike, find_spread_strategy, find_butterfly_strategy and
\* convert_spx_levels are deterministic and stateless: a call with the
\* arguments of an earlier call returns what the earlier call returned,
\* whatever calls ran in between, and no call changes min_probability,
\* max_contracts, risk_free_rate, conversion_factors or multipliers.
SameCallSameResult ==
    pc = "session" /\ op = obs.first.op /\ args = obs.first.args => res = obs.first.res

FieldsKept == pc' = "session" => obs'.self = Constructed

ZeroDteCurrents == {2000, Pips(50), Pips(100)}              \* 0.20, 50 and 100 dollars
ZeroDteEntries == {-1, 0, 1, 2}                             \* times current_price
ZeroDteTargetPercents == {97, 103, 106, 150}
ZeroDteIvs == {2000, 5000}

ZeroDteSetups ==
    {[instrument |-> "SPY", current_price |-> c, entry |-> e * c,
      target |-> (c * p) \div 100, stop |-> 0, risk_amount |-> r,
      is_call |-> TRUE, dte |-> 0, iv |-> iv] :
        c \in ZeroDteCurrents, e \in ZeroDteEntries, p \in ZeroDteTargetPercents,
        r \in RiskAmounts, iv \in ZeroDteIvs}

FindBestStrikeZeroDte ==
    Call("find_best_strike", [a \in ZeroDteSetups |-> FindBestStrike(a)])

NextZeroDte == FindBestStrikeZeroDte \/ Return

SpecZeroDte == Init /\ [][NextZeroDte]_vars

\* C25: with dte = 0, is_call = True, iv > 0 and the built-in risk-free
\* rate, every candidate's probability of profit is the degenerate 0/1 value
\* against a breakeven (strike + premium) strictly above entry, so it is 0,
\* and find_best_strike returns found=False for every current_price, entry,
\* target and risk_amount.
ZeroDteCall ==
    Returned("find_best_strike") /\ args.dte = 0 /\ args.is_call /\ args.iv > 0

C25_ZeroDteCallNeverFound ==
    ZeroDteCall =>
        /\ res.kind = "ok" /\ ~res.found
        /\ \A c \in Evaluated :
              "probability" \in DOMAIN c =>
                  /\ c.probability_T = 0
                  /\ c.breakeven = c.strike + c.option_price
                  /\ c.breakeven > args.entry
                  /\ c.probability = 0

(***************************************************************************)
(* The search loop of find_best_strike over candidates of any score        *)
(***************************************************************************)
SearchStrikes == <<Pips(105), Pips(110), Pips(115)>>        \* sorted(strikes)
SearchScores == {-230398, -205960, 0}                       \* e6

\* What the loop body can make of the strike at position i.
SearchCandidates(i) ==
    {[strike |-> SearchStrikes[i], status |-> "scored", score |-> score] :
        score \in SearchScores}
    \cup {[strike |-> SearchStrikes[i], status |-> status] :
             status \in {"unaffordable", "rejected", "nan"}}

SearchLists ==
    UNION {{[i \in 1..n |-> f[i]] : f \in [1..n -> UNION {SearchCandidates(i) : i \in 1..n}]}
              : n \in 1..Len(SearchStrikes)}

\* The lists the loop meets: position i holds the outcome of strike i.
SearchInputs == {cands \in SearchLists : \A i \in 1..Len(cands) : cands[i] \in SearchCandidates(i)}

SearchLoopCall ==
    /\ pc = "idle"
    /\ \E cands \in SearchInputs :
          /\ pc' = "done"
          /\ op' = "search_loop"
          /\ args' = [cands |-> cands]
          /\ res' = SearchLoop(cands, 1, <<>>)
          /\ obs' = <<>>

\* find_best_strike as a whole, whose loop it is.
SearchFindBestStrike ==
    Call("find_best_strike",
         [a \in {Setup(s) @@ [stop |-> 0] : s \in SessionSetups} |-> FindBestStrike(a)])

NextSearch == SearchLoopCall \/ SearchFindBestStrike \/ Return

SpecSearch == Init /\ [][NextSearch]_vars

\* C26: tie-break of find_best_strike: the candidates are evaluated in
\* ascending strike order and a candidate replaces the best only when its
\* score is strictly greater, so among the valid candidates with the same
\* maximal score the one with the lowest strike is returned.
ScoredCandidates == {args.cands[i] : i \in {j \in 1..Len(args.cands) : args.cands[j].status = "scored"}}

LowestStrikeOfLoop ==
    Returned("search_loop") =>
        /\ res.kind = "ok" /\ res.evaluated = Len(args.cands)
        /\ (res.best = <<>>) = (ScoredCandidates = {})
        /\ res.best # <<>> =>
              /\ res.best \in ScoredCandidates
              /\ \A c \in ScoredCandidates :
                    /\ c.score <= res.best.score
                    /\ c.score = res.best.score => c.strike >= res.best.strike

AscendingEvaluation ==
    Returned("find_best_strike") /\ res.kind = "ok" =>
        /\ \A i \in 1..(Len(obs.strikes) - 1) : obs.strikes[i] < obs.strikes[i + 1]
        /\ \A i \in 1..Len(obs.cands) : obs.cands[i].strike = obs.strikes[i]
        /\ res.found =>
              \A c \in Evaluated :
                  c.status = "scored" =>
                      /\ c.score <= res.score
                      /\ c.score = res.score => c.strike >= res.strike

C26_LowestStrikeAmongBest == LowestStrikeOfLoop /\ AscendingEvaluation

C26_Witness ==
    /\ Returned("search_loop") /\ res.best # <<>>
    /\ \E c \in ScoredCandidates : c.score = res.best.score /\ c.strike > res.best.strike
    /\ \E c \in ScoredCandidates : c.score < res.best.score /\ c.strike < res.best.strike

(***************************************************************************)
(* _round_to_standard_strike on its own                                    *)
(***************************************************************************)
\* config.STANDARD_STRIKES, in pips.
StandardStrikes ==
    [UNDER_10 |-> E4 \div 2, UNDER_100 |-> E4, UNDER_500 |-> Pips(5), OVER_500 |-> Pips(10)]

\* The increment of the tier of a price.
Increment(price) ==
    IF price.hi = 1 THEN StandardStrikes.OVER_500
    ELSE IF price.lo < Pips(10) THEN StandardStrikes.UNDER_10
    ELSE IF price.lo < Pips(100) THEN StandardStrikes.UNDER_100
    ELSE IF price.lo < Pips(500) THEN StandardStrikes.UNDER_500
    ELSE StandardStrikes.OVER_500

\* Prices at the ties and the breakpoints of the tiers, and doubles of the
\* binade of 2^57.
RoundingPrices ==
    {Num(lo) : lo \in {1, 2000, 2500, 2600, 7500, 12500, 97400, 97500, 99999,
                       Pips(10), 104999, 105000, 994999, 995000, 999999,
                       Pips(100), 1024999, 1025000, 1075000, 4974999, 4975000,
                       4999999, Pips(500), 5049999, 5050000, 5150000, Pips(5795)}}
    \cup {Huge(k * UlpHuge) : k \in 0..4}

\* Two calls, and a third on the result of the first.
RoundToStandardStrikeCall ==
    /\ pc = "idle"
    /\ \E price \in RoundingPrices, other \in RoundingPrices :
          /\ NumLeq(price, other)
          /\ pc' = "done"
          /\ op' = "_round_to_standard_strike"
          /\ args' = [price |-> price, other |-> other]
          /\ res' = [kind |-> "ok",
                     rounded |-> RoundToStandardStrike(price),
                     other   |-> RoundToStandardStrike(other),
                     again   |-> RoundToStandardStrike(RoundToStandardStrike(price))]
          /\ obs' = <<>>

NextRounding == RoundToStandardStrikeCall \/ Return

SpecRounding == Init /\ [][NextRounding]_vars

\* x is a whole multiple of the increment inc (2^57 = 2 mod 10 dollars, and
\* 0 modulo the smaller increments).
MultipleOf(x, inc) ==
    IF x.hi = 1 THEN (x.lo + Pips(2)) % inc = 0 ELSE x.lo % inc = 0

\* C27: _round_to_standard_strike maps every price > 0 to a multiple of the
\* increment of the price's tier (0.5 below 10, 1 below 100, 5 below 500, 10
\* from 500) at distance at most half that increment; the result is a valid
\* standard strike of the tier it lands in; the function is idempotent and
\* monotone non-decreasing.
C27_RoundsToNearestStandardStrike ==
    Returned("_round_to_standard_strike") =>
        /\ res.rounded.hi = args.price.hi
        /\ MultipleOf(res.rounded, Increment(args.price))
        /\ 2 * Abs(res.rounded.lo - args.price.lo) <= Increment(args.price)
        /\ MultipleOf(res.rounded, Increment(res.rounded))
        /\ NumLess(Num(0), res.rounded)
        /\ res.again = res.rounded
        /\ NumLeq(res.rounded, res.other)

(***************************************************************************)
(* The order of the strikes of a butterfly                                 *)
(***************************************************************************)
\* C28: every butterfly returned by find_butterfly_strategy has three
\* distinct, strictly ordered strikes lower_strike < atm_strike <
\* upper_strike, for every current_price > 0 and pin_target (also where 2% of
\* current_price is smaller than the strike increment).
C28_StrictlyOrderedStrikes ==
    Found("find_butterfly_strategy") /\ args.current_price > 0 =>
        /\ res.lower_strike < res.atm_strike
        /\ res.atm_strike < res.upper_strike

(***************************************************************************)
(* MarketDataFetcher: the cache, the rate limit and the requests sent to   *)
(* the data source.  Times are in tenths of a second.  What the data       *)
(* source answers, and how long it takes, is chosen by the environment.    *)
(* Values are [t |-> "none"] for None, [t |-> "num", v |-> n] for a number *)
(* and [t |-> "chain", ...] for the dictionary of an option chain.         *)
(***************************************************************************)
MinRequestInterval == 5                   \* self.min_request_interval = 0.5
CacheTtl == 300                           \* self.cache_ttl = 30
StartTime == 1000                         \* time.time() at construction
Far == 100 * CacheTtl                     \* no two requests sent yet
Durations == {1, 6}                       \* of one request to the data source
Waits == {2, 5, CacheTtl}                 \* between two calls
MaxSteps == 3                             \* calls and waits on one fetcher

NoneValue == [t |-> "none", v |-> 0]
Number(n) == [t |-> "num", v |-> n]
LastPrice == Number(580)
DefaultVolatility == Number(2000)         \* 0.20, in e4
AnnualVolatility == Number(1500)
MeanImpliedVolatility == Number(1800)

\* self.symbols
SymbolNames == <<"SPX", "SPY", "ES", "XSP", "VIX", "DXY", "GLD", "TLT">>
SymbolOf == [SPX |-> "^GSPC", SPY |-> "SPY", ES |-> "ES=F", XSP |-> "^XSP",
             VIX |-> "^VIX", DXY |-> "DX-Y.NYB", GLD |-> "GLD", TLT |-> "TLT"]

\* The fields after __init__, with what has been sent to the data source:
\* the time of the last request, the closest two consecutive requests have
\* been, and for every key what was stored last (value, time, and whether
\* the data source had answered with a price or a chain).
NewFetcher ==
    [now |-> StartTime, last_request_time |-> 0,
     cache |-> <<>>, cache_timestamp |-> <<>>,
     last_sent |-> -1, closest |-> Far, fetched |-> <<>>, steps |-> 0]

\* _rate_limit
RateLimit(f) ==
    LET time_since_last == f.now - f.last_request_time
        woke == IF time_since_last < MinRequestInterval
                THEN f.now + (MinRequestInterval - time_since_last)
                ELSE f.now
    IN  [f EXCEPT !.now = woke, !.last_request_time = woke]

\* _is_cache_valid
IsCacheValid(f, key) ==
    /\ key \in DOMAIN f.cache_timestamp
    /\ f.now - f.cache_timestamp[key] < CacheTtl

\* A request to the data source, answered (or failed) after dur.
Send(f, dur) ==
    [f EXCEPT !.closest = IF f.last_sent < 0 THEN @ ELSE Min(@, f.now - f.last_sent),
              !.last_sent = f.now,
              !.now = f.now + dur]

\* self.cache[key] = value; self.cache_timestamp[key] = time.time()
Store(f, key, value, answered) ==
    [f EXCEPT !.cache = (key :> value) @@ @,
              !.cache_timestamp = (key :> f.now) @@ @,
              !.fetched = (key :> [value |-> value, time |-> f.now, answered |-> answered]) @@ @]

Hit(f, key) == [f |-> f, ret |-> f.cache[key], hit |-> TRUE, key |-> key]
Miss(f, key, ret) == [f |-> f, ret |-> ret, hit |-> FALSE, key |-> key]

\* get_current_price(symbol).  path is what the data source does: the price
\* comes from fast_info, from history or from info, info has no price (the
\* default 0 of info.get), or a request raises.
PricePaths == {"fast_info", "history", "info", "info_default", "history_raises",
               "info_raises", "ticker_raises"}

GetCurrentPrice(f, symbol, path, dur) ==
    LET key == <<"price", symbol>>
        f0  == RateLimit(f)
        f1  == Send(f0, dur)                  \* info['lastPrice']
        f2  == Send(f1, dur)                  \* ticker.history
        f3  == Send(f2, dur)                  \* ticker.info
    IN  IF IsCacheValid(f, key) THEN Hit(f, key)
        ELSE IF path = "ticker_raises" THEN Miss(f0, key, NoneValue)
        ELSE IF path = "fast_info" THEN Miss(Store(f1, key, LastPrice, TRUE), key, LastPrice)
        ELSE IF path = "history_raises" THEN Miss(f2, key, NoneValue)
        ELSE IF path = "history" THEN Miss(Store(f2, key, LastPrice, TRUE), key, LastPrice)
        ELSE IF path = "info_raises" THEN Miss(f3, key, NoneValue)
        ELSE IF path = "info" THEN Miss(Store(f3, key, LastPrice, TRUE), key, LastPrice)
        ELSE Miss(Store(f3, key, Number(0), FALSE), key, Number(0))

\* get_option_chain(symbol, expiry_date)
ChainPaths == {"chain", "options_raises", "no_expirations", "chain_raises"}

GetOptionChain(f, symbol, expiry_date, path, price_path, dur) ==
    LET key == <<"chain", symbol, expiry_date>>
        f0  == RateLimit(f)
        f1  == Send(f0, dur)                  \* ticker.options
        f2  == Send(f1, dur)                  \* ticker.option_chain(expiry_date)
        price == GetCurrentPrice(f2, symbol, price_path, dur)
        result == [t |-> "chain", v |-> 0,
                   expiry |-> IF expiry_date = "None" THEN "nearest" ELSE expiry_date,
                   underlying_price |-> price.ret]
    IN  IF IsCacheValid(f, key) THEN Hit(f, key)
        ELSE IF path \in {"options_raises", "no_expirations"} THEN Miss(f1, key, NoneValue)
        ELSE IF path = "chain_raises" THEN Miss(f2, key, NoneValue)
        ELSE Miss(Store(price.f, key, result, TRUE), key, result)

\* get_option_chain_live(symbol, dte): ticker.options is read with no
\* _rate_limit before it.
GetOptionChainLive(f, symbol, dte, live_path, path, price_path, dur) ==
    LET f1 == Send(f, dur)                    \* ticker.options
    IN  IF live_path \in {"options_raises", "no_expirations"}
        THEN Miss(f1, <<"live", symbol, dte>>, NoneValue)
        ELSE GetOptionChain(f1, SymbolOf[symbol], "best_expiry", path, price_path, dur)

\* get_historical_volatility(symbol, period)
VolatilityPaths == {"history", "short_history", "history_raises"}

GetHistoricalVolatility(f, symbol, period, path, dur) ==
    LET key == <<"hv", symbol, period>>
        f1  == Send(RateLimit(f), dur)        \* ticker.history
    IN  IF IsCacheValid(f, key) THEN Hit(f, key)
        ELSE IF path = "history"
        THEN Miss(Store(f1, key, AnnualVolatility, TRUE), key, AnnualVolatility)
        ELSE Miss(f1, key, DefaultVolatility)

\* get_implied_volatility(symbol, dte): None * 0.98 raises TypeError, which
\* the handler turns into the default.
GetImpliedVolatility(f, symbol, dte, live_path, path, price_path, with_ivs, hv_path, dur) ==
    LET chain == GetOptionChainLive(f, symbol, dte, live_path, path, price_path, dur)
    IN  IF chain.ret.t = "none"
        THEN GetHistoricalVolatility(chain.f, symbol, 20, hv_path, dur)
        ELSE IF chain.ret.underlying_price.t = "none"
        THEN Miss(chain.f, <<"iv", symbol, dte>>, DefaultVolatility)
        ELSE IF with_ivs /\ chain.ret.underlying_price.v > 0
        THEN Miss(chain.f, <<"iv", symbol, dte>>, MeanImpliedVolatility)
        ELSE GetHistoricalVolatility(chain.f, symbol, 20, hv_path, dur)

\* get_all_prices: the loop over self.symbols from the name at place i, with
\* prices the dictionary built so far.
RECURSIVE AllPricesLoop(_, _, _, _, _)
AllPricesLoop(f, i, prices, paths, dur) ==
    IF i > Len(SymbolNames) THEN Miss(f, <<"all">>, [t |-> "prices", v |-> 0, prices |-> prices])
    ELSE LET name  == SymbolNames[i]
             price == GetCurrentPrice(f, SymbolOf[name], paths[name], dur)
         IN  AllPricesLoop(price.f, i + 1,
                           IF price.ret.t = "num" /\ price.ret.v # 0
                           THEN (name :> price.ret.v) @@ prices
                           ELSE IF name = "XSP" /\ "SPY" \in DOMAIN prices
                           THEN (name :> prices["SPY"] * 10) @@ prices
                           ELSE prices,
                           paths, dur)

\* What the data source does for the eight symbols of get_all_prices.
AllPricesPaths ==
    {[name \in DOMAIN SymbolOf |-> "fast_info"],
     [name \in DOMAIN SymbolOf |-> "info_raises"],
     [name \in DOMAIN SymbolOf |-> IF name = "SPY" THEN "history" ELSE "history_raises"]}

\* A call of a public method: op, args and res are the call (what it
\* returned, when, whether from the cache, and the cache as it was before),
\* obs the fetcher after it.
FetcherCall(name, a, r) ==
    /\ pc' = "fetcher"
    /\ op' = name
    /\ args' = a
    /\ res' = [ret |-> r.ret, hit |-> r.hit, key |-> r.key, at |-> r.f.now,
               cache |-> obs.cache, cache_timestamp |-> obs.cache_timestamp]
    /\ obs' = [r.f EXCEPT !.steps = @ + 1]

Fetching == pc = "fetcher" /\ obs.steps < MaxSteps

Construct ==
    /\ pc = "idle"
    /\ pc' = "fetcher" /\ op' = "__init__" /\ args' = <<>>
    /\ res' = [ret |-> NoneValue, hit |-> FALSE, key |-> <<>>, at |-> StartTime,
               cache |-> <<>>, cache_timestamp |-> <<>>]
    /\ obs' = NewFetcher

\* Time passes between two calls.
Wait ==
    /\ Fetching
    /\ \E d \in Waits :
          /\ obs' = [obs EXCEPT !.now = @ + d, !.steps = @ + 1]
          /\ UNCHANGED <<pc, op, args, res>>

GetCurrentPriceCall ==
    /\ Fetching
    /\ \E path \in PricePaths, dur \in Durations :
          FetcherCall("get_current_price", [symbol |-> "SPY"],
                      GetCurrentPrice(obs, "SPY", path, dur))

GetOptionChainCall ==
    /\ Fetching
    /\ \E expiry_date \in {"None", "best_expiry"}, path \in ChainPaths,
          price_path \in {"fast_info", "info_raises"}, dur \in Durations :
          FetcherCall("get_option_chain", [symbol |-> "SPY", expiry_date |-> expiry_date],
                      GetOptionChain(obs, "SPY", expiry_date, path, price_path, dur))

GetOptionChainLiveCall ==
    /\ Fetching
    /\ \E live_path \in {"options", "options_raises"}, path \in ChainPaths,
          price_path \in {"fast_info", "info_raises"}, dur \in Durations :
          FetcherCall("get_option_chain_live", [symbol |-> "SPY", dte |-> 0],
                      GetOptionChainLive(obs, "SPY", 0, live_path, path, price_path, dur))

GetHistoricalVolatilityCall ==
    /\ Fetching
    /\ \E path \in VolatilityPaths, dur \in Durations :
          FetcherCall("get_historical_volatility", [symbol |-> "SPY", period |-> 20],
                      GetHistoricalVolatility(obs, "SPY", 20, path, dur))

GetImpliedVolatilityCall ==
    /\ Fetching
    /\ \E live_path \in {"options", "options_raises"}, path \in {"chain", "chain_raises"},
          price_path \in {"fast_info", "info_raises"}, with_ivs \in BOOLEAN,
          hv_path \in {"history", "history_raises"}, dur \in Durations :
          FetcherCall("get_implied_volatility", [symbol |-> "SPY", dte |-> 30],
                      GetImpliedVolatility(obs, "SPY", 30, live_path, path, price_path,
                                           with_ivs, hv_path, dur))

GetAllPricesCall ==
    /\ Fetching
    /\ \E paths \in AllPricesPaths, dur \in Durations :
          FetcherCall("get_all_prices", <<>>, AllPricesLoop(obs, 1, <<>>, paths, dur))

\* The fetcher is dropped.
Discard ==
    /\ pc = "fetcher"
    /\ pc' = "idle" /\ op' = "none" /\ args' = <<>> /\ res' = <<>> /\ obs' = <<>>

NextFetcher ==
    \/ Construct
    \/ Wait
    \/ GetCurrentPriceCall
    \/ GetOptionChainCall
    \/ GetOptionChainLiveCall
    \/ GetHistoricalVolatilityCall
    \/ GetImpliedVolatilityCall
    \/ GetAllPricesCall
    \/ Discard

SpecFetcher == Init /\ [][NextFetcher]_vars

\* C29: rate limiting of MarketDataFetcher: over any sequence of calls to
\* its public methods, any two consecutive requests sent to the data source
\* are at least min_request_interval (0.5 s) apart.
C29_RequestsSpaced == pc = "fetcher" => obs.closest >= MinRequestInterval

\* C30: cache soundness of MarketDataFetcher: cache and cache_timestamp have
\* the same keys; a value is returned from the cache only if a successful
\* fetch for the same key stored it less than cache_ttl (30 s) earlier; a
\* fetch that fails (returns None or a default) leaves cache and
\* cache_timestamp unchanged.
Fetches == {"get_current_price", "get_option_chain", "get_historical_volatility"}

FailedFetch ==
    /\ op \in Fetches /\ ~res.hit
    /\ \/ res.ret.t = "none"
       \/ res.ret = Number(0)
       \/ op = "get_historical_volatility" /\ res.ret = DefaultVolatility

C30_CacheSound ==
    pc = "fetcher" =>
        /\ DOMAIN obs.cache = DOMAIN obs.cache_timestamp
        /\ res.hit =>
              /\ res.key \in DOMAIN obs.fetched
              /\ obs.fetched[res.key].answered
              /\ obs.fetched[res.key].value = res.ret
              /\ res.at - obs.fetched[res.key].time < CacheTtl
        /\ FailedFetch =>
              obs.cache = res.cache /\ obs.cache_timestamp = res.cache_timestamp

=============================================================================
